---- MODULE Spec2Model ----
(***************************************************************************)
(* ALICE: conversation memory and persona orchestration engine.            *)
(*                                                                         *)
(* The module models the two engines of the repository, ALICE              *)
(* (alice_core.py, the "full" profile) and ALICEPi (alice_pi_optimized.py, *)
(* the "pi" profile), their memory managers, persona managers and command  *)
(* dispatchers, and the web interface's direct operations on the engine.   *)
(*                                                                         *)
(* Text is modelled structurally: a returned message is a record           *)
(* [msg, args] holding the literal format string of the source and the     *)
(* values substituted into it, and a prompt is the sequence of the pieces  *)
(* the source concatenates.  User input ranges over a finite set of lines; *)
(* lower(), strip() and startswith() are tabulated on that set.            *)
(***************************************************************************)
EXTENDS Integers, Sequences, FiniteSets, TLC

(***************************************************************************)
(* Bounds of the model.                                                    *)
(***************************************************************************)
\* chat turns one engine session processes
MaxTurns == 2
\* turns appended to one short-term memory
MaxAppends == 22
\* max_short_term of the small-buffer scenario
ScenarioMaxShortTerm == 2
\* chat turns of a session at the dispatcher
MaxDispatchTurns == 1
\* chat turns of a session in which the memory is also cleared
MaxSessionTurns == 4
\* chat turns of a console session
MaxConsoleTurns == 2
\* chat messages the web workers take between them
MaxWebTurns == 3
\* store_user_fact calls on one database
MaxFacts == 3
\* instants the clock moves through while facts are stored
MaxFactTicks == 1
\* chat turns logged before and between retention cleanups
MaxRows == 2
\* whole days the clock moves through
MaxDays == 2
\* instants within a day the clock moves through
MaxSubTicks == 2
\* instants per second the model distinguishes
TicksPerSecond == 2
\* entries of a short-term memory handed to the prompt assembly
MaxMemory == 4

(***************************************************************************)
(* Modes and personas.                                                     *)
(***************************************************************************)
Profiles == {"full", "pi"}

\* AIMode of alice_core.py, in declaration order
FullModes == <<"assistant", "companion", "roleplay", "dungeon_master", "storyteller">>

\* AIMode of alice_pi_optimized.py, in declaration order
PiModes == <<"assistant", "companion">>

Range(s) == {s[i] : i \in DOMAIN s}

ModeSeq(p) == IF p = "full" THEN FullModes ELSE PiModes

Modes(p) == Range(ModeSeq(p))

\* PersonaManager.personas
FullPersonas ==
  [m \in Range(FullModes) |->
    CASE m = "assistant" ->
           [name |-> "ALICE Assistant",
            personality |-> "Professional, helpful, and informative. Focuses on practical assistance.",
            style |-> "Clear, concise, and organized responses. Uses bullet points when appropriate.",
            restrictions |-> <<"Keep responses PG-13", "Focus on factual information", "Avoid controversial topics">>,
            greeting |-> "Hello! I'm ALICE in Assistant mode. How can I help you today?"]
      [] m = "companion" ->
           [name |-> "ALICE Companion",
            personality |-> "Friendly, conversational, and empathetic. More casual and personal.",
            style |-> "Natural, flowing conversation. Uses humor and shows interest in user's life.",
            restrictions |-> <<"Respect user boundaries", "Be supportive and understanding">>,
            greeting |-> "Hey there! I'm ALICE in Companion mode. What's on your mind?"]
      [] m = "roleplay" ->
           [name |-> "ALICE Roleplay",
            personality |-> "Adaptable, creative, and immersive. Becomes characters as needed.",
            style |-> "Descriptive, engaging, and character-appropriate responses.",
            restrictions |-> <<"Follow established character rules", "Maintain narrative consistency">>,
            greeting |-> "Greetings! I'm ALICE in Roleplay mode. What character or scenario shall we explore?"]
      [] m = "dungeon_master" ->
           [name |-> "ALICE DM",
            personality |-> "Creative storyteller, fair but challenging game master.",
            style |-> "Descriptive narration, clear rule explanations, engaging scenarios.",
            restrictions |-> <<"Follow game rules fairly", "Create balanced challenges">>,
            greeting |-> "Welcome, adventurer! I'm ALICE, your Dungeon Master. Ready to begin your quest?"]
      [] m = "storyteller" ->
           [name |-> "ALICE Storyteller",
            personality |-> "Imaginative, dramatic, and engaging narrator.",
            style |-> "Rich descriptions, compelling narratives, emotional depth.",
            restrictions |-> <<"Maintain story coherence", "Engage audience appropriately">>,
            greeting |-> "Once upon a time... I'm ALICE in Storyteller mode. What tale shall we weave together?"]]

\* PersonaManagerPi.personas
PiPersonas ==
  [m \in Range(PiModes) |->
    CASE m = "assistant" ->
           [greeting |-> "Hello! I'm ALICE (running on Raspberry Pi). How can I help?",
            system_prompt |-> "You are a helpful AI assistant. Keep responses brief and focused."]
      [] m = "companion" ->
           [greeting |-> "Hey! ALICE here. What's on your mind?",
            system_prompt |-> "You are a friendly conversational AI. Be casual and supportive."]]

\* a lookup that answers an unmapped mode with an empty persona
get_persona_or_empty(mode) ==
  IF mode \in DOMAIN FullPersonas THEN FullPersonas[mode]
  ELSE [name |-> "", personality |-> "", style |-> "", restrictions |-> <<>>, greeting |-> ""]

\* PersonaManager.get_persona: dict.get(mode, personas[ASSISTANT])
get_persona(mode) ==
  IF mode \in DOMAIN FullPersonas THEN FullPersonas[mode] ELSE FullPersonas["assistant"]

\* PersonaManagerPi lookup: personas.get(mode, personas[ASSISTANT])
get_persona_pi(mode) ==
  IF mode \in DOMAIN PiPersonas THEN PiPersonas[mode] ELSE PiPersonas["assistant"]

\* get_greeting of either profile
get_greeting(p, mode) ==
  IF p = "full" THEN get_persona(mode).greeting ELSE get_persona_pi(mode).greeting

\* A piece of text: a tag and the string it carries.
Piece(k, v) == [k |-> k, v |-> v]

\* PersonaManager.get_system_prompt: the f-string, piece by piece; the
\* restrictions are rendered one "- r" line each, in list order.
get_system_prompt(p, mode) ==
  IF p = "full"
  THEN LET persona == get_persona(mode)
       IN  <<Piece("You are {}.", persona.name),
             Piece("Personality: {}", persona.personality),
             Piece("Communication Style: {}", persona.style),
             Piece("Restrictions:", "")>>
           \o [i \in 1..Len(persona.restrictions) |-> Piece("- {}", persona.restrictions[i])]
           \o <<Piece("Remember to stay in character for this mode while being helpful and engaging.", "")>>
  ELSE <<Piece("{}", get_persona_pi(mode).system_prompt)>>

(***************************************************************************)
(* User input: the lines a front-end may hand to process_input, and the    *)
(* string methods of the dispatcher tabulated on them.                     *)
(***************************************************************************)
ChatInputs == {"hello"}

CommandInputs ==
  {"/help", "/HELP", "/status", "/memory", "/config", "/facts", "/save", "/cleanup",
   "/quit", "/dance", "/mode",
   "/mode assistant", "/mode companion", "/MODE Companion ", "/mode roleplay",
   "/mode dungeon_master", "/mode storyteller", "/mode wizard"}

Inputs == ChatInputs \cup CommandInputs

\* more lines that start with '/': trailing blanks, an argument the
\* dispatchers do not take, '/mode ' with nothing after it
MoreCommandInputs == {"/Status ", "/quit  ", "/cleanup 3", "/mode "}

\* lines that hold a command after leading blanks
IndentedInputs == {" /help", " /quit"}

\* str.lower()
Lower(s) ==
  CASE s = "/HELP" -> "/help"
    [] s = "/MODE Companion " -> "/mode companion "
    [] s = "/Status " -> "/status "
    [] OTHER -> s

\* str.strip()
Strip(s) ==
  CASE s = "/mode companion " -> "/mode companion"
    [] s = "/MODE Companion " -> "/MODE Companion"
    [] s = "/status " -> "/status"
    [] s = "/Status " -> "/Status"
    [] s = "/quit  " -> "/quit"
    [] s = "/mode " -> "/mode"
    [] s = " /help" -> "/help"
    [] s = " /quit" -> "/quit"
    [] OTHER -> s

\* a test that takes '/help' alone for a command
StartsWithSlash_help_only(s) == s = "/help"

\* str.startswith('/')
StartsWithSlash(s) ==
  LET lines == CommandInputs \cup MoreCommandInputs
  IN  s \in lines \cup {Lower(c) : c \in lines}

\* the stripped, lower-cased commands that start with '/mode ', with
\* cmd.split(' ', 1)[1].strip() of each
ModeCommands ==
  {<<"/mode assistant", "assistant">>, <<"/mode companion", "companion">>,
   <<"/mode roleplay", "roleplay">>, <<"/mode dungeon_master", "dungeon_master">>,
   <<"/mode storyteller", "storyteller">>, <<"/mode wizard", "wizard">>}

\* cmd.startswith('/mode ')
StartsWithMode(cmd) == \E mc \in ModeCommands : mc[1] = cmd

\* cmd.split(' ', 1)[1].strip()
ModeArg(cmd) == (CHOOSE mc \in ModeCommands : mc[1] = cmd)[2]

\* what the generation backend may return for a prompt when a model is loaded
Responses == {"reply"}

(***************************************************************************)
(* Messages returned (or printed) to the caller, log records, backend      *)
(* calls.                                                                  *)
(***************************************************************************)
Msg(fmt, args) == [msg |-> fmt, args |-> args]

NoResult == Msg("", <<>>)

\* an exception leaving the operation
Raised(what) == Msg("raise", <<what>>)

\* the fixed not-running message of either profile
NotRunningMsg(p) ==
  IF p = "full" THEN Msg("ALICE system is not running. Please start the system first.", <<>>)
  ELSE Msg("System not running.", <<>>)

Call(fn, system_prompt, prompt) == [fn |-> fn, system_prompt |-> system_prompt, prompt |-> prompt]

VARIABLES
  profile,            \* which engine this session is: ALICE ("full") or ALICEPi ("pi")
  current_mode,       \* self.current_mode
  config_mode,        \* self.config.current_mode
  log_conversations,  \* self.config.log_conversations
  memory_retention_days, \* self.config.memory_retention_days
  is_running,         \* self.is_running
  model_loaded,       \* the backend holds a loaded model
  short_term_memory,  \* self.memory.short_term_memory
  max_short_term,     \* self.memory.max_short_term
  conversations,      \* rows of the conversations table, in id order
  conversations_seq,  \* the last AUTOINCREMENT id of the conversations table
  user_facts,         \* rows of the user_facts table, in id order
  now,                \* the clock (UTC), in ticks
  utc_offset,         \* local time minus UTC on the host, in ticks
  turns,              \* turns handed to add_to_short_term so far
  op,                 \* the last operation called
  op_arg,             \* its argument
  result,             \* what it returned to the caller
  printed,            \* what it wrote to standard output, in order
  backend_calls,      \* the calls it made to the model backend, in order
  logged,             \* the records it wrote to the logger, in order
  window,             \* the last slice taken of short_term_memory
  peer_memory,        \* short_term_memory of a second engine
  peer_mode,          \* current_mode of a second engine
  peer_calls,         \* the backend calls of the second engine's last operation
  pc,                 \* where each front-end process (console, web worker) stands
  locals              \* the local variables of each web worker's handler

vars == <<profile, current_mode, config_mode, log_conversations, memory_retention_days,
          is_running, model_loaded, short_term_memory, max_short_term, conversations,
          conversations_seq, user_facts, now, utc_offset, turns, op, op_arg, result,
          printed, backend_calls, logged, window, peer_memory, peer_mode, peer_calls,
          pc, locals>>

\* the front-end processes: the console loop and two workers of the web
\* server
Processes == {"console", "worker1", "worker2"}

\* a process outside any handler
NoLocals == <<>>

\* the configuration and the host
config_vars == <<profile, log_conversations, memory_retention_days, max_short_term, utc_offset>>

\* what no operation of the engine touches
other_vars == <<user_facts, window, peer_memory, peer_mode, peer_calls>>

\* the front-end processes; they stand still while the engine is called directly
front_vars == <<pc, locals>>

\* the session state process_input may change
session_vars == <<current_mode, config_mode, is_running, model_loaded, short_term_memory,
                  conversations, conversations_seq, turns>>

(***************************************************************************)
(* Time.  The clock counts ticks of UTC; datetime.now().isoformat() stores *)
(* the local tick (now + utc_offset), SQLite's datetime() keeps whole      *)
(* seconds and its 'now' is UTC.                                           *)
(***************************************************************************)
\* SQLite's ' days' modifier
SecondsPerDay == 86400

\* AliceConfig.memory_retention_days, AliceConfigPi.memory_retention_days
DefaultRetentionDays(p) == IF p = "full" THEN 30 ELSE 7

\* SQLite datetime(timestamp) of a stored isoformat() string: whole seconds
Datetime(ts) == ts \div TicksPerSecond

\* SQLite datetime('now', '-' || days || ' days'): whole seconds
Cutoff(t, days) == (t \div TicksPerSecond) - days * SecondsPerDay

(***************************************************************************)
(* MemoryManager / MemoryManagerPi.                                        *)
(***************************************************************************)
\* MemoryManager.__init__ / MemoryManagerPi.__init__: self.max_short_term
DefaultMaxShortTerm(p) == IF p = "full" THEN 20 ELSE 5

\* the entry add_to_short_term builds (the Pi entry has no timestamp)
Entry(p, t, user_input, alice_response, mode) ==
  IF p = "full"
  THEN [timestamp |-> t, user_input |-> user_input, alice_response |-> alice_response, mode |-> mode]
  ELSE [user_input |-> user_input, alice_response |-> alice_response, mode |-> mode]

\* add_to_short_term evicting the newest entry: pop() for pop(0)
add_to_short_term_pop_newest(stm, cap, entry) ==
  LET appended == Append(stm, entry)
  IN  IF Len(appended) > cap THEN SubSeq(appended, 1, Len(appended) - 1) ELSE appended

\* add_to_short_term: append, then pop(0) if the list is longer than max
add_to_short_term(stm, cap, entry) ==
  LET appended == Append(stm, entry)
  IN  IF Len(appended) > cap THEN Tail(appended) ELSE appended

\* a slice from the front: list[:n] for list[-n:]
FirstN(s, n) == IF Len(s) <= n THEN s ELSE SubSeq(s, 1, n)

\* Python's list[-n:] for n >= 1
LastN(s, n) == IF Len(s) <= n THEN s ELSE SubSeq(s, Len(s) - n + 1, Len(s))

\* a slice one turn longer than the code's
ContextWindow_wide(p) == IF p = "full" THEN 4 ELSE 3

\* the slice process_input takes for the prompt: [-3:] (full), [-2:] (Pi)
ContextWindow(p) == IF p = "full" THEN 3 ELSE 2

\* the row save_to_long_term inserts; AUTOINCREMENT gives the id
Row(p, id, t, user_input, alice_response, mode) ==
  IF p = "full"
  THEN [id |-> id, timestamp |-> t, mode |-> mode, user_input |-> user_input,
        alice_response |-> alice_response, context_data |-> "{}"]
  ELSE [id |-> id, timestamp |-> t, mode |-> mode, user_input |-> user_input,
        alice_response |-> alice_response]

\* an INSERT that puts the new row before the others
save_to_long_term_front(rows, p, id, t, user_input, alice_response, mode) ==
  <<Row(p, id, t, user_input, alice_response, mode)>> \o rows

\* save_to_long_term: INSERT INTO conversations
save_to_long_term(rows, p, id, t, user_input, alice_response, mode) ==
  Append(rows, Row(p, id, t, user_input, alice_response, mode))

\* a DELETE that also takes the rows of the cutoff's own second
cleanup_old_conversations_inclusive(rows, t, days) ==
  SelectSeq(rows, LAMBDA r : ~(Datetime(r.timestamp) <= Cutoff(t, days)))

\* cleanup_old_conversations: DELETE ... WHERE datetime(timestamp) < datetime('now', '-N days')
cleanup_old_conversations(rows, t, days) ==
  SelectSeq(rows, LAMBDA r : ~(Datetime(r.timestamp) < Cutoff(t, days)))

(***************************************************************************)
(* Prompt assembly (process_input).                                        *)
(***************************************************************************)
RECURSIVE RenderEntries_ai_first(_)
\* a rendering that puts the AI line of a turn before its Human line
RenderEntries_ai_first(entries) ==
  IF entries = <<>> THEN <<>>
  ELSE <<Piece("AI: {}\n", Head(entries).alice_response),
         Piece("Human: {}\n", Head(entries).user_input)>>
       \o RenderEntries_ai_first(Tail(entries))

RECURSIVE RenderEntries(_)
\* for entry in <slice>: context += "Human: ...\nAI: ...\n"
RenderEntries(entries) ==
  IF entries = <<>> THEN <<>>
  ELSE <<Piece("Human: {}\n", Head(entries).user_input),
         Piece("AI: {}\n", Head(entries).alice_response)>> \o RenderEntries(Tail(entries))

\* context built without looking whether the memory is empty
Context_unconditional(p, stm) ==
  IF p = "full"
  THEN <<Piece("Previous conversation:\n", "")>>
       \o RenderEntries(LastN(stm, ContextWindow(p)))
       \o <<Piece("\nCurrent conversation:\n", "")>>
  ELSE <<Piece("Previous conversation:\n", "")>> \o RenderEntries(LastN(stm, ContextWindow(p)))

\* context: empty for an empty memory; the full engine wraps the rendered
\* window in a header and a separator, the Pi engine does not
Context(p, stm) ==
  IF stm = <<>> THEN <<>>
  ELSE IF p = "full"
       THEN <<Piece("Previous conversation:\n", "")>>
            \o RenderEntries(LastN(stm, ContextWindow(p)))
            \o <<Piece("\nCurrent conversation:\n", "")>>
       ELSE RenderEntries(LastN(stm, ContextWindow(p)))

\* full_prompt = context + user_input
FullPrompt(p, stm, user_input) == Context(p, stm) \o <<Piece("{}", user_input)>>

\* generate_response with no model loaded
NotLoadedResponse(p) ==
  IF p = "full" THEN "Model not loaded. Please load a model first." ELSE "Model not loaded."

\* what generate_response may return
GenerateResponses(p, loaded) == IF loaded THEN Responses ELSE {NotLoadedResponse(p)}

\* the text HuggingFaceModel / PiModel return when the library call inside
\* their generate_response raises
ErrorResponse(p) ==
  IF p = "full" THEN "Error generating response: {}" ELSE "Error: {}"

\* stands for a generate_response that raises instead of returning, as
\* ModelInterface.generate_response does
GenerateRaises == "raise NotImplementedError"

\* what a call of the backend's generate_response may come to: a reply, the
\* shipped backends' own error and not-loaded texts, or an exception
GenerateOutcomes(p, loaded) ==
  GenerateResponses(p, loaded)
    \cup (IF loaded THEN {ErrorResponse(p)} ELSE {})
    \cup {GenerateRaises}


(***************************************************************************)
(* The engine: ALICE and ALICEPi.                                          *)
(***************************************************************************)
\* ALICE.__init__ / ALICEPi.__init__ with the default configuration, but
\* for log_conversations, which is whatever the loaded configuration says
EngineInit ==
  /\ profile \in Profiles
  /\ current_mode = "assistant"
  /\ config_mode = current_mode
  /\ log_conversations \in BOOLEAN
  /\ memory_retention_days = DefaultRetentionDays(profile)
  /\ is_running = FALSE
  /\ model_loaded = FALSE
  /\ short_term_memory = <<>>
  /\ max_short_term = DefaultMaxShortTerm(profile)
  /\ conversations = <<>>
  /\ conversations_seq = 0
  /\ user_facts = <<>>
  /\ now = 0
  /\ utc_offset = 0
  /\ turns = 0
  /\ op = "init"
  /\ op_arg = ""
  /\ result = NoResult
  /\ printed = <<>>
  /\ backend_calls = <<>>
  /\ logged = IF profile = "full" THEN <<Msg("ALICE system initialized", <<>>)>> ELSE <<>>
  /\ window = [n |-> 0, entries |-> <<>>]
  /\ peer_memory = <<>>
  /\ peer_mode = "assistant"
  /\ peer_calls = <<>>
  /\ pc = [process \in Processes |-> "idle"]
  /\ locals = [process \in Processes |-> NoLocals]

\* the banner ALICEPi.start prints first
Banner == Msg("ALICE - Raspberry Pi Edition", <<>>)

\* a start that raises the running flag only once the model is loaded
start_flag_after_load(loads) ==
  /\ op' = "start"
  /\ op_arg' = ""
  /\ is_running' = loads
  /\ backend_calls' = <<Call("load_model", <<>>, <<>>)>>
  /\ model_loaded' = (loads \/ model_loaded)
  /\ IF profile = "full"
     THEN IF loads
          THEN /\ result' = NoResult
               /\ printed' = <<Msg("\n{}\n", <<get_persona(current_mode).greeting>>)>>
               /\ logged' = <<Msg("Starting ALICE system...", <<>>),
                              Msg("ALICE started in {} mode", <<current_mode>>)>>
          ELSE /\ result' = Raised("load_model")
               /\ printed' = <<>>
               /\ logged' = <<Msg("Starting ALICE system...", <<>>)>>
     ELSE IF loads
          THEN /\ result' = Msg("True", <<>>)
               /\ printed' = <<Banner, Msg("\n{}", <<get_greeting(profile, current_mode)>>),
                               Msg("\nCommands: /help /mode /quit", <<>>)>>
               /\ logged' = <<Msg("ALICE Pi started", <<>>)>>
          ELSE /\ result' = Msg("False", <<>>)
               /\ printed' = <<Banner, Msg("Failed to load model. Exiting.", <<>>)>>
               /\ logged' = <<>>
  /\ UNCHANGED <<config_vars, current_mode, config_mode, short_term_memory, conversations,
                 conversations_seq, other_vars, now, turns>>

\* ALICE.start / ALICEPi.start; loads is whether load_model succeeds (the
\* full backend's load_model raises when its fallback load fails too, the Pi
\* backend's returns False).  ALICE.start returns None and ALICEPi.start
\* True or False; the greeting goes to standard output
start(loads) ==
  /\ op' = "start"
  /\ op_arg' = ""
  /\ is_running' = TRUE
  /\ backend_calls' = <<Call("load_model", <<>>, <<>>)>>
  /\ model_loaded' = (loads \/ model_loaded)
  /\ IF profile = "full"
     THEN IF loads
          THEN /\ result' = NoResult
               /\ printed' = <<Msg("\n{}\n", <<get_persona(current_mode).greeting>>)>>
               /\ logged' = <<Msg("Starting ALICE system...", <<>>),
                              Msg("ALICE started in {} mode", <<current_mode>>)>>
          ELSE /\ result' = Raised("load_model")
               /\ printed' = <<>>
               /\ logged' = <<Msg("Starting ALICE system...", <<>>)>>
     ELSE IF loads
          THEN /\ result' = Msg("True", <<>>)
               /\ printed' = <<Banner, Msg("\n{}", <<get_greeting(profile, current_mode)>>),
                               Msg("\nCommands: /help /mode /quit", <<>>)>>
               /\ logged' = <<Msg("ALICE Pi started", <<>>)>>
          ELSE /\ result' = Msg("False", <<>>)
               /\ printed' = <<Banner, Msg("Failed to load model. Exiting.", <<>>)>>
               /\ logged' = <<>>
  /\ UNCHANGED <<config_vars, current_mode, config_mode, short_term_memory, conversations,
                 conversations_seq, other_vars, now, turns>>

\* the log records of ALICE.stop / ALICEPi.stop
StopLog(p) ==
  IF p = "full"
  THEN <<Msg("Stopping ALICE system...", <<>>), Msg("ALICE stopped", <<>>)>>
  ELSE <<Msg("ALICE Pi stopped", <<>>)>>

\* a stop that flips the running flag
stop_toggle ==
  /\ op' = "stop"
  /\ op_arg' = ""
  /\ is_running' = ~is_running
  /\ backend_calls' = <<Call("unload_model", <<>>, <<>>)>>
  /\ model_loaded' = FALSE
  /\ result' = NoResult
  /\ printed' = <<>>
  /\ logged' = StopLog(profile)
  /\ UNCHANGED <<config_vars, current_mode, config_mode, short_term_memory, conversations,
                 conversations_seq, other_vars, now, turns>>

\* a stop that puts the session back in assistant mode
stop_resets_mode ==
  /\ op' = "stop"
  /\ op_arg' = ""
  /\ is_running' = FALSE
  /\ backend_calls' = <<Call("unload_model", <<>>, <<>>)>>
  /\ model_loaded' = FALSE
  /\ result' = NoResult
  /\ current_mode' = "assistant"
  /\ config_mode' = "assistant"
  /\ printed' = <<>>
  /\ logged' = StopLog(profile)
  /\ UNCHANGED <<config_vars, short_term_memory, conversations,
                 conversations_seq, other_vars, now, turns>>

\* ALICE.stop / ALICEPi.stop
stop ==
  /\ op' = "stop"
  /\ op_arg' = ""
  /\ is_running' = FALSE
  /\ backend_calls' = <<Call("unload_model", <<>>, <<>>)>>
  /\ model_loaded' = FALSE
  /\ result' = NoResult
  /\ printed' = <<>>
  /\ logged' = StopLog(profile)
  /\ UNCHANGED <<config_vars, current_mode, config_mode, short_term_memory, conversations,
                 conversations_seq, other_vars, now, turns>>

\* a switch_mode whose text carries the mode's value in place of the
\* persona's name
SwitchResult_value_name(p, old_mode, new_mode) ==
  IF new_mode # old_mode
  THEN Msg("Switched to {} mode.\n{}", <<new_mode, get_greeting(p, new_mode)>>)
  ELSE Msg("Already in {} mode.", <<new_mode>>)

\* the value switch_mode returns
SwitchResult(p, old_mode, new_mode) ==
  IF new_mode # old_mode
  THEN IF p = "full"
       THEN Msg("Switched to {} mode.\n{}",
                <<get_persona(new_mode).name, get_persona(new_mode).greeting>>)
       ELSE Msg("Switched to {} mode.\n{}", <<new_mode, get_greeting(p, new_mode)>>)
  ELSE Msg("Already in {} mode.", <<new_mode>>)

\* switch_mode logging before it compares the modes
SwitchLog_always(p, old_mode, new_mode) ==
  IF p = "full"
  THEN <<Msg("Switched from {} to {} mode", <<old_mode, new_mode>>)>>
  ELSE <<Msg("Switched to {}", <<new_mode>>)>>

\* the log records switch_mode writes
SwitchLog(p, old_mode, new_mode) ==
  IF new_mode # old_mode
  THEN IF p = "full"
       THEN <<Msg("Switched from {} to {} mode", <<old_mode, new_mode>>)>>
       ELSE <<Msg("Switched to {}", <<new_mode>>)>>
  ELSE <<>>

\* switch_mode updating the configuration record only
SwitchState_config_only(new_mode) ==
  IF new_mode # current_mode
  THEN /\ config_mode' = new_mode
       /\ UNCHANGED current_mode
  ELSE UNCHANGED <<current_mode, config_mode>>

\* a switch_mode that leaves the configuration record behind
SwitchState_session_only(new_mode) ==
  IF new_mode # current_mode
  THEN /\ current_mode' = new_mode
       /\ UNCHANGED config_mode
  ELSE UNCHANGED <<current_mode, config_mode>>

\* ALICE.switch_mode / ALICEPi.switch_mode: the part that changes the session
SwitchState(new_mode) ==
  IF new_mode # current_mode
  THEN /\ current_mode' = new_mode
       /\ config_mode' = new_mode
  ELSE UNCHANGED <<current_mode, config_mode>>

\* '/mode <name>' falling back to the assistant mode for an unknown name
ModeCommand_fallback(mode_name) ==
  LET new_mode == IF mode_name \in Modes(profile) THEN mode_name ELSE "assistant"
  IN  /\ SwitchState(new_mode)
      /\ result' = SwitchResult(profile, current_mode, new_mode)
      /\ logged' = SwitchLog(profile, current_mode, new_mode)

\* '/mode <name>' of either dispatcher: AIMode(mode_name), then switch_mode;
\* the mode names of the Pi dispatcher's literal error text are kept apart
\* from the rest of it
ModeCommand(mode_name) ==
  IF mode_name \in Modes(profile)
  THEN /\ SwitchState(mode_name)
       /\ result' = SwitchResult(profile, current_mode, mode_name)
       /\ logged' = SwitchLog(profile, current_mode, mode_name)
  ELSE /\ UNCHANGED <<current_mode, config_mode>>
       /\ logged' = <<>>
       /\ result' = IF profile = "full"
                    THEN Msg("Unknown mode: {}. Available modes: {}", <<mode_name>> \o FullModes)
                    ELSE Msg("Unknown mode. Use: {} or {}", PiModes)


RECURSIVE MemoryLines(_, _)
\* the lines '/memory' prints for the entries it lists: mode, user input and
\* response in the full engine, the user input alone in the Pi engine (the
\* inputs of the model are shorter than the 50 and 40 characters kept)
MemoryLines(p, entries) ==
  IF entries = <<>> THEN <<>>
  ELSE (IF p = "full"
        THEN <<Head(entries).mode, Head(entries).user_input, Head(entries).alice_response>>
        ELSE <<Head(entries).user_input>>) \o MemoryLines(p, Tail(entries))

\* a dispatcher of the full engine without the '/save' branch
FullReadCommand_no_save(command, cmd) ==
  CASE cmd = "/help" ->
         Msg("ALICE System Commands:",
             <<"/help", "/mode <mode_name>", "/status", "/memory", "/config", "/save", "/quit">>)
    [] cmd = "/status" ->
         Msg("ALICE System Status:",
             <<current_mode, "gpt2", ToString(Len(short_term_memory)), ToString(is_running)>>)
    [] cmd = "/memory" ->
         IF short_term_memory # <<>>
         THEN Msg("Recent Memory:\n", MemoryLines("full", LastN(short_term_memory, 5)))
         ELSE Msg("No recent memory available.", <<>>)
    [] cmd = "/config" ->
         Msg("Current Configuration:",
             <<config_mode, "gpt2", ToString(memory_retention_days), ToString(log_conversations)>>)
    [] OTHER -> Msg("Unknown command: {}. Type /help for available commands.", <<command>>)

\* ALICE._handle_system_command: the commands that only read the session
FullReadCommand(command, cmd) ==
  CASE cmd = "/help" ->
         Msg("ALICE System Commands:",
             <<"/help", "/mode <mode_name>", "/status", "/memory", "/config", "/save", "/quit">>)
    [] cmd = "/status" ->
         Msg("ALICE System Status:",
             <<current_mode, "gpt2", ToString(Len(short_term_memory)), ToString(is_running)>>)
    [] cmd = "/memory" ->
         IF short_term_memory # <<>>
         THEN Msg("Recent Memory:\n", MemoryLines("full", LastN(short_term_memory, 5)))
         ELSE Msg("No recent memory available.", <<>>)
    [] cmd = "/config" ->
         Msg("Current Configuration:",
             <<config_mode, "gpt2", ToString(memory_retention_days), ToString(log_conversations)>>)
    [] cmd = "/save" -> Msg("Configuration saved successfully.", <<>>)
    [] OTHER -> Msg("Unknown command: {}. Type /help for available commands.", <<command>>)

\* ALICEPi._handle_command: the commands that only read the session
PiReadCommand(command, cmd) ==
  CASE cmd = "/help" ->
         Msg("Commands:", <<"/help", "/mode <assistant|companion>", "/status", "/memory", "/cleanup", "/quit">>)
    [] cmd = "/status" ->
         Msg("Status:", <<current_mode, "distilgpt2", ToString(Len(short_term_memory))>>)
    [] cmd = "/memory" ->
         IF short_term_memory # <<>>
         THEN Msg("Recent:\n", MemoryLines("pi", short_term_memory))
         ELSE Msg("No recent memory.", <<>>)
    [] OTHER -> Msg("Unknown command. Type /help for options.", <<>>)

\* a dispatcher whose '/quit' answers without stopping the engine
handle_command_quit_replies(command) ==
  LET cmd == Strip(Lower(command))
  IN  /\ UNCHANGED <<config_vars, short_term_memory, conversations_seq, other_vars, now, turns>>
      /\ printed' = <<>>
      /\ IF StartsWithMode(cmd)
         THEN /\ ModeCommand(ModeArg(cmd))
              /\ backend_calls' = <<>>
              /\ UNCHANGED <<is_running, model_loaded, conversations>>
         ELSE IF cmd = "/quit"
         THEN /\ UNCHANGED <<is_running, model_loaded>>
              /\ backend_calls' = <<Call("unload_model", <<>>, <<>>)>>
              /\ logged' = StopLog(profile)
              /\ result' = IF profile = "full" THEN Msg("Goodbye! ALICE system stopped.", <<>>)
                           ELSE Msg("Goodbye!", <<>>)
              /\ UNCHANGED <<current_mode, config_mode, conversations>>
         ELSE IF profile = "pi" /\ cmd = "/cleanup"
         THEN /\ conversations' =
                   cleanup_old_conversations(conversations, now, memory_retention_days)
              /\ result' = Msg("Cleaned conversations older than {} days.",
                               <<ToString(memory_retention_days)>>)
              /\ backend_calls' = <<>>
              /\ logged' = <<>>
              /\ UNCHANGED <<current_mode, config_mode, is_running, model_loaded>>
         ELSE /\ result' = IF profile = "full" THEN FullReadCommand(command, cmd)
                           ELSE PiReadCommand(command, cmd)
              /\ backend_calls' = <<>>
              /\ logged' = <<>>
              /\ UNCHANGED <<current_mode, config_mode, is_running, model_loaded, conversations>>

\* _handle_system_command / _handle_command
handle_command(command) ==
  LET cmd == Strip(Lower(command))
  IN  /\ UNCHANGED <<config_vars, short_term_memory, conversations_seq, other_vars, now, turns>>
      /\ printed' = <<>>
      /\ IF StartsWithMode(cmd)
         THEN /\ ModeCommand(ModeArg(cmd))
              /\ backend_calls' = <<>>
              /\ UNCHANGED <<is_running, model_loaded, conversations>>
         ELSE IF cmd = "/quit"
         THEN /\ is_running' = FALSE
              /\ model_loaded' = FALSE
              /\ backend_calls' = <<Call("unload_model", <<>>, <<>>)>>
              /\ logged' = StopLog(profile)
              /\ result' = IF profile = "full" THEN Msg("Goodbye! ALICE system stopped.", <<>>)
                           ELSE Msg("Goodbye!", <<>>)
              /\ UNCHANGED <<current_mode, config_mode, conversations>>
         ELSE IF profile = "pi" /\ cmd = "/cleanup"
         THEN /\ conversations' =
                   cleanup_old_conversations(conversations, now, memory_retention_days)
              /\ result' = Msg("Cleaned conversations older than {} days.",
                               <<ToString(memory_retention_days)>>)
              /\ backend_calls' = <<>>
              /\ logged' = <<>>
              /\ UNCHANGED <<current_mode, config_mode, is_running, model_loaded>>
         ELSE /\ result' = IF profile = "full" THEN FullReadCommand(command, cmd)
                           ELSE PiReadCommand(command, cmd)
              /\ backend_calls' = <<>>
              /\ logged' = <<>>
              /\ UNCHANGED <<current_mode, config_mode, is_running, model_loaded, conversations>>

\* a prompt assembly that shows only the turns recorded under the current
\* mode
compose_same_mode(p, mode, stm, user_input) ==
  Call("generate_response", get_system_prompt(p, mode),
       FullPrompt(p, SelectSeq(stm, LAMBDA e : e.mode = mode), user_input))

\* the generate_response call process_input makes for a mode, a memory and a text
compose(p, mode, stm, user_input) ==
  Call("generate_response", get_system_prompt(p, mode), FullPrompt(p, stm, user_input))

\* a chat turn that writes the conversation log before the short-term
\* memory, so that a failed INSERT leaves the memory as it was
chat_turn_save_first(user_input, response, stored) ==
  /\ printed' = <<>>
  /\ backend_calls' = <<compose(profile, current_mode, short_term_memory, user_input)>>
  /\ IF response = GenerateRaises
     THEN /\ result' = Raised("generate_response")
          /\ logged' = <<>>
          /\ UNCHANGED <<short_term_memory, turns, conversations, conversations_seq>>
     ELSE /\ turns' = turns + 1
          /\ short_term_memory' =
               IF log_conversations /\ ~stored
               THEN short_term_memory
               ELSE add_to_short_term(short_term_memory, max_short_term,
                                      Entry(profile, now + utc_offset, user_input, response,
                                            current_mode))
          /\ IF log_conversations /\ ~stored
             THEN /\ result' = Raised("sqlite3.Error")
                  /\ logged' = <<>>
                  /\ UNCHANGED <<conversations, conversations_seq>>
             ELSE /\ result' = Msg("{}", <<response>>)
                  /\ logged' = IF profile = "full"
                               THEN <<Msg("Processed input in {} mode", <<current_mode>>)>>
                               ELSE <<>>
                  /\ IF log_conversations
                     THEN /\ conversations_seq' = conversations_seq + 1
                          /\ conversations' =
                               save_to_long_term(conversations, profile, conversations_seq + 1,
                                                 now + utc_offset, user_input, response,
                                                 current_mode)
                     ELSE UNCHANGED <<conversations, conversations_seq>>
  /\ UNCHANGED <<config_vars, current_mode, config_mode, is_running, model_loaded,
                 other_vars, now>>

\* a chat turn that remembers the turn only when it also logs it
chat_turn_remember_if_logged(user_input, response, stored) ==
  /\ printed' = <<>>
  /\ backend_calls' = <<compose(profile, current_mode, short_term_memory, user_input)>>
  /\ IF response = GenerateRaises
     THEN /\ result' = Raised("generate_response")
          /\ logged' = <<>>
          /\ UNCHANGED <<short_term_memory, turns, conversations, conversations_seq>>
     ELSE /\ turns' = turns + 1
          /\ short_term_memory' =
               IF ~log_conversations
               THEN short_term_memory
               ELSE add_to_short_term(short_term_memory, max_short_term,
                                      Entry(profile, now + utc_offset, user_input, response,
                                            current_mode))
          /\ IF log_conversations /\ ~stored
             THEN /\ result' = Raised("sqlite3.Error")
                  /\ logged' = <<>>
                  /\ UNCHANGED <<conversations, conversations_seq>>
             ELSE /\ result' = Msg("{}", <<response>>)
                  /\ logged' = IF profile = "full"
                               THEN <<Msg("Processed input in {} mode", <<current_mode>>)>>
                               ELSE <<>>
                  /\ IF log_conversations
                     THEN /\ conversations_seq' = conversations_seq + 1
                          /\ conversations' =
                               save_to_long_term(conversations, profile, conversations_seq + 1,
                                                 now + utc_offset, user_input, response,
                                                 current_mode)
                     ELSE UNCHANGED <<conversations, conversations_seq>>
  /\ UNCHANGED <<config_vars, current_mode, config_mode, is_running, model_loaded,
                 other_vars, now>>

\* a chat turn that remembers the turn before it composes the prompt
chat_turn_compose_after(user_input, response, stored) ==
  /\ printed' = <<>>
  /\ backend_calls' =
       <<compose(profile, current_mode,
                 IF response = GenerateRaises THEN short_term_memory
                 ELSE add_to_short_term(short_term_memory, max_short_term,
                                        Entry(profile, now + utc_offset, user_input, response,
                                              current_mode)),
                 user_input)>>
  /\ IF response = GenerateRaises
     THEN /\ result' = Raised("generate_response")
          /\ logged' = <<>>
          /\ UNCHANGED <<short_term_memory, turns, conversations, conversations_seq>>
     ELSE /\ turns' = turns + 1
          /\ short_term_memory' =
               add_to_short_term(short_term_memory, max_short_term,
                                 Entry(profile, now + utc_offset, user_input, response, current_mode))
          /\ IF log_conversations /\ ~stored
             THEN /\ result' = Raised("sqlite3.Error")
                  /\ logged' = <<>>
                  /\ UNCHANGED <<conversations, conversations_seq>>
             ELSE /\ result' = Msg("{}", <<response>>)
                  /\ logged' = IF profile = "full"
                               THEN <<Msg("Processed input in {} mode", <<current_mode>>)>>
                               ELSE <<>>
                  /\ IF log_conversations
                     THEN /\ conversations_seq' = conversations_seq + 1
                          /\ conversations' =
                               save_to_long_term(conversations, profile, conversations_seq + 1,
                                                 now + utc_offset, user_input, response,
                                                 current_mode)
                     ELSE UNCHANGED <<conversations, conversations_seq>>
  /\ UNCHANGED <<config_vars, current_mode, config_mode, is_running, model_loaded,
                 other_vars, now>>

\* process_input, a chat turn: compose, generate, remember, log.  response
\* is what the backend returns, or GenerateRaises; stored is whether the
\* INSERT succeeds.  Nothing in process_input catches an exception
chat_turn(user_input, response, stored) ==
  /\ printed' = <<>>
  /\ backend_calls' = <<compose(profile, current_mode, short_term_memory, user_input)>>
  /\ IF response = GenerateRaises
     THEN /\ result' = Raised("generate_response")
          /\ logged' = <<>>
          /\ UNCHANGED <<short_term_memory, turns, conversations, conversations_seq>>
     ELSE /\ turns' = turns + 1
          /\ short_term_memory' =
               add_to_short_term(short_term_memory, max_short_term,
                                 Entry(profile, now + utc_offset, user_input, response, current_mode))
          /\ IF log_conversations /\ ~stored
             THEN /\ result' = Raised("sqlite3.Error")
                  /\ logged' = <<>>
                  /\ UNCHANGED <<conversations, conversations_seq>>
             ELSE /\ result' = Msg("{}", <<response>>)
                  /\ logged' = IF profile = "full"
                               THEN <<Msg("Processed input in {} mode", <<current_mode>>)>>
                               ELSE <<>>
                  /\ IF log_conversations
                     THEN /\ conversations_seq' = conversations_seq + 1
                          /\ conversations' =
                               save_to_long_term(conversations, profile, conversations_seq + 1,
                                                 now + utc_offset, user_input, response,
                                                 current_mode)
                     ELSE UNCHANGED <<conversations, conversations_seq>>
  /\ UNCHANGED <<config_vars, current_mode, config_mode, is_running, model_loaded,
                 other_vars, now>>

\* process_input without the check of is_running
process_input_unguarded(user_input, response, stored) ==
  /\ op' = "process_input"
  /\ op_arg' = user_input
  /\ IF StartsWithSlash(Lower(user_input))
     THEN handle_command(user_input)
     ELSE chat_turn(user_input, response, stored)

\* ALICE.process_input / ALICEPi.process_input
process_input(user_input, response, stored) ==
  /\ op' = "process_input"
  /\ op_arg' = user_input
  /\ IF ~is_running
     THEN /\ result' = NotRunningMsg(profile)
          /\ printed' = <<>>
          /\ backend_calls' = <<>>
          /\ logged' = <<>>
          /\ UNCHANGED <<config_vars, current_mode, config_mode, is_running, model_loaded,
                         short_term_memory, conversations, conversations_seq, other_vars,
                         now, turns>>
     ELSE IF StartsWithSlash(Lower(user_input))
          THEN handle_command(user_input)
          ELSE chat_turn(user_input, response, stored)

\* ALICEWebInterface.switch_mode: AIMode(mode_name.lower()), then
\* ALICE.switch_mode; the web interface drives the full engine
web_switch_mode(mode_name) ==
  /\ profile = "full"
  /\ op' = "switch_mode"
  /\ op_arg' = mode_name
  /\ printed' = <<>>
  /\ backend_calls' = <<>>
  /\ IF mode_name \in Modes(profile)
     THEN /\ SwitchState(mode_name)
          /\ result' = SwitchResult(profile, current_mode, mode_name)
          /\ logged' = SwitchLog(profile, current_mode, mode_name)
     ELSE /\ UNCHANGED <<current_mode, config_mode>>
          /\ result' = Msg("Invalid mode: {}", <<mode_name>>)
          /\ logged' = <<>>
  /\ UNCHANGED <<config_vars, is_running, model_loaded, short_term_memory, conversations,
                 conversations_seq, other_vars, now, turns>>

\* a clear_memory that empties the conversation log with the memory
clear_memory_and_log ==
  /\ profile = "full"
  /\ op' = "clear_memory"
  /\ op_arg' = ""
  /\ short_term_memory' = <<>>
  /\ conversations' = <<>>
  /\ result' = Msg("Short-term memory cleared!", <<>>)
  /\ printed' = <<>>
  /\ backend_calls' = <<>>
  /\ logged' = <<>>
  /\ UNCHANGED <<config_vars, current_mode, config_mode, is_running, model_loaded,
                 conversations_seq, other_vars, now, turns>>

\* a clear_memory that keeps the oldest turn of the memory
clear_memory_keep_oldest ==
  /\ profile = "full"
  /\ op' = "clear_memory"
  /\ op_arg' = ""
  /\ short_term_memory' = IF short_term_memory = <<>> THEN <<>>
                        ELSE <<Head(short_term_memory)>>
  /\ result' = Msg("Short-term memory cleared!", <<>>)
  /\ printed' = <<>>
  /\ backend_calls' = <<>>
  /\ logged' = <<>>
  /\ UNCHANGED <<config_vars, current_mode, config_mode, is_running, model_loaded,
                 conversations, conversations_seq, other_vars, now, turns>>

\* ALICEWebInterface.clear_memory
clear_memory ==
  /\ profile = "full"
  /\ op' = "clear_memory"
  /\ op_arg' = ""
  /\ short_term_memory' = <<>>
  /\ result' = Msg("Short-term memory cleared!", <<>>)
  /\ printed' = <<>>
  /\ backend_calls' = <<>>
  /\ logged' = <<>>
  /\ UNCHANGED <<config_vars, current_mode, config_mode, is_running, model_loaded,
                 conversations, conversations_seq, other_vars, now, turns>>

\* the names a mode switch may be asked for
ModeNames == Range(FullModes) \cup {"wizard"}

\* process_input would take a chat turn
IsChatTurn(user_input) == is_running /\ ~StartsWithSlash(Lower(user_input))

\* One engine session driven by its front-ends, with a backend that loads
\* and a database that accepts every INSERT; at most MaxTurns chat turns.
Next ==
  \/ start(TRUE) /\ UNCHANGED front_vars
  \/ stop /\ UNCHANGED front_vars
  \/ \E user_input \in Inputs :
       \E response \in GenerateResponses(profile, model_loaded) :
         /\ IsChatTurn(user_input) => turns < MaxTurns
         /\ process_input(user_input, response, TRUE)
         /\ UNCHANGED front_vars
  \/ \E mode_name \in ModeNames : web_switch_mode(mode_name) /\ UNCHANGED front_vars
  \/ clear_memory /\ UNCHANGED front_vars

Spec == EngineInit /\ [][Next]_vars

\* the lines typed at the dispatcher
DispatchInputs == Inputs \cup MoreCommandInputs \cup IndentedInputs

\* One engine session at the dispatcher: every line of DispatchInputs, with
\* a backend that loads and a database that accepts every INSERT; at most
\* MaxDispatchTurns chat turns.
DispatchNext ==
  \/ start(TRUE) /\ UNCHANGED front_vars
  \/ \E user_input \in DispatchInputs :
       \E response \in GenerateResponses(profile, model_loaded) :
         /\ IsChatTurn(user_input) => turns < MaxDispatchTurns
         /\ process_input(user_input, response, TRUE)
         /\ UNCHANGED front_vars

SpecDispatch == EngineInit /\ [][DispatchNext]_vars

\* the inputs of a session whose collaborators may fail
FaultInputs == {"hello", "/quit", "/mode companion"}

\* One engine session whose collaborators may fail: load_model may fail, a
\* generate_response may return an error text or raise, an INSERT into the
\* conversation log may fail; at most MaxTurns turns are remembered.
FaultsNext ==
  \/ \E loads \in BOOLEAN : start(loads) /\ UNCHANGED front_vars
  \/ stop /\ UNCHANGED front_vars
  \/ \E user_input \in FaultInputs, stored \in BOOLEAN :
       \E response \in GenerateOutcomes(profile, model_loaded) :
         /\ IsChatTurn(user_input) => turns < MaxTurns
         /\ process_input(user_input, response, stored)
         /\ UNCHANGED front_vars

SpecFaults == EngineInit /\ [][FaultsNext]_vars


(***************************************************************************)
(* The short-term memory under a long run of chat turns: a started engine  *)
(* whose max_short_term is the profile's or the small scenario's, fed      *)
(* turns that are all different, and sliced.                               *)
(***************************************************************************)
\* the text of the k-th turn
TurnText(k) == ToString(k)

\* the slice sizes of the source: [-2:], [-3:], [-5:]
WindowSizes == {2, 3, 5}

FifoInit ==
  /\ profile \in Profiles
  /\ current_mode = "assistant"
  /\ config_mode = current_mode
  /\ log_conversations \in BOOLEAN
  /\ memory_retention_days = DefaultRetentionDays(profile)
  /\ is_running = TRUE
  /\ model_loaded = TRUE
  /\ short_term_memory = <<>>
  /\ max_short_term \in {DefaultMaxShortTerm(profile), ScenarioMaxShortTerm}
  /\ conversations = <<>>
  /\ conversations_seq = 0
  /\ user_facts = <<>>
  /\ now = 0
  /\ utc_offset = 0
  /\ turns = 0
  /\ op = "start"
  /\ op_arg = ""
  /\ result = NoResult
  /\ printed = <<>>
  /\ backend_calls = <<>>
  /\ logged = <<>>
  /\ window = [n |-> 0, entries |-> <<>>]
  /\ peer_memory = <<>>
  /\ peer_mode = "assistant"
  /\ peer_calls = <<>>
  /\ pc = [process \in Processes |-> "idle"]
  /\ locals = [process \in Processes |-> NoLocals]

\* self.memory.short_term_memory[-n:]
take_window(n) ==
  /\ op' = "window"
  /\ op_arg' = ToString(n)
  /\ window' = [n |-> n, entries |-> LastN(short_term_memory, n)]
  /\ UNCHANGED <<config_vars, session_vars, user_facts, now, result, printed, backend_calls, logged,
                 peer_memory, peer_mode, peer_calls>>

FifoNext ==
  \/ /\ turns < MaxAppends
     /\ \E response \in Responses : process_input(TurnText(turns + 1), response, TRUE)
     /\ UNCHANGED front_vars
  \/ \E n \in WindowSizes : take_window(n) /\ UNCHANGED front_vars

SpecFifo == FifoInit /\ [][FifoNext]_vars


(***************************************************************************)
(* A session with memory clears: a started engine fed turns that are all   *)
(* different, whose memory the web front-end clears and whose mode is      *)
(* switched between turns.                                                 *)
(***************************************************************************)
\* the commands of the session
SessionCommands == {"/mode companion", "/mode assistant", "/status", "/memory"}

SessionNext ==
  \/ /\ turns < MaxSessionTurns
     /\ \E response \in Responses : process_input(TurnText(turns + 1), response, TRUE)
     /\ UNCHANGED front_vars
  \/ \E command \in SessionCommands : process_input(command, "", TRUE) /\ UNCHANGED front_vars
  \/ clear_memory /\ UNCHANGED front_vars

SpecSession == FifoInit /\ [][SessionNext]_vars


(***************************************************************************)
(* The console front-ends: console_interface and console_interface_pi.     *)
(* The loop reads a line, strips it, skips it if empty, hands it to        *)
(* process_input and breaks on a quit word; a KeyboardInterrupt stops the  *)
(* engine and breaks; the finally clause stops an engine still running.    *)
(***************************************************************************)
\* the stripped, non-empty lines typed at the console
ConsoleLines == {"hello", "/status", "/mode companion", "/quit", "exit", "bye"}

\* the words the loop breaks on: ['/quit', 'exit', 'bye'] / ['/quit', 'exit']
QuitWords(p) == IF p = "full" THEN {"/quit", "exit", "bye"} ELSE {"/quit", "exit"}

\* everything but the front-end processes and the clock
called_vars == <<config_vars, session_vars, other_vars, op, op_arg, result, printed,
                 backend_calls, logged>>

\* alice = ALICE(); alice.start() / if not alice.start(): return.  A load
\* failure leaves console_interface by the exception and
\* console_interface_pi by the return
console_start(loads) ==
  /\ pc["console"] = "idle"
  /\ start(loads)
  /\ pc' = [pc EXCEPT !["console"] =
              IF loads THEN "loop" ELSE IF profile = "full" THEN "raised" ELSE "returned"]
  /\ UNCHANGED locals

\* one pass of the loop: input().strip(), process_input, break on a quit word
console_read(user_input, response) ==
  /\ pc["console"] = "loop"
  /\ is_running
  /\ process_input(user_input, response, TRUE)
  /\ pc' = [pc EXCEPT !["console"] =
              IF Lower(user_input) \in QuitWords(profile) THEN "finally" ELSE "loop"]
  /\ UNCHANGED locals

\* except KeyboardInterrupt: alice.stop(); break
console_interrupt ==
  /\ pc["console"] = "loop"
  /\ is_running
  /\ stop
  /\ pc' = [pc EXCEPT !["console"] = "finally"]
  /\ UNCHANGED locals

\* finally: if alice.is_running: alice.stop()
console_finally ==
  /\ pc["console"] = "finally"
  /\ IF is_running THEN stop ELSE UNCHANGED <<called_vars, now>>
  /\ pc' = [pc EXCEPT !["console"] = "returned"]
  /\ UNCHANGED locals

ConsoleNext ==
  \/ \E loads \in BOOLEAN : console_start(loads)
  \/ \E user_input \in ConsoleLines :
       \E response \in GenerateResponses(profile, model_loaded) :
         /\ IsChatTurn(user_input) => turns < MaxConsoleTurns
         /\ console_read(user_input, response)
  \/ console_interrupt
  \/ console_finally

SpecConsole == EngineInit /\ [][ConsoleNext]_vars


(***************************************************************************)
(* The web front-end: two workers of the web server run the handlers of    *)
(* ALICEWebInterface on one engine, with nothing to keep them apart.  A    *)
(* chat turn is a sequence of steps, each with one access to the shared    *)
(* engine: the prompt (reads current_mode and the memory), the generation, *)
(* the append of add_to_short_term (reads current_mode), its length check, *)
(* its pop(0), and the log (reads current_mode).  switch_mode and          *)
(* clear_memory are one step each.                                         *)
(***************************************************************************)
Workers == {"worker1", "worker2"}

\* the modes the mode buttons of the session ask for
WebModes == {"assistant", "companion"}

\* the workers inside process_input that have not appended their turn yet
BeforeAppend == {w \in Workers : pc[w] \in {"generate", "remember"}}

WebInit ==
  /\ FifoInit
  /\ profile = "full"
  /\ max_short_term = ScenarioMaxShortTerm

\* chat_with_alice -> process_input up to the prompt: the is_running check,
\* get_system_prompt(self.current_mode), the context from the memory
chat_prompt(w, user_input) ==
  /\ pc[w] = "idle"
  /\ is_running
  /\ ~StartsWithSlash(Lower(user_input))
  /\ locals' = [locals EXCEPT ![w] =
                  [user_input |-> user_input,
                   call |-> compose(profile, current_mode, short_term_memory, user_input)]]
  /\ pc' = [pc EXCEPT ![w] = "generate"]
  /\ UNCHANGED <<called_vars, now>>

\* response = self.model.generate_response(full_prompt, system_prompt)
chat_generate(w, response) ==
  /\ pc[w] = "generate"
  /\ locals' = [locals EXCEPT ![w] =
                  [user_input |-> locals[w].user_input, call |-> locals[w].call,
                   response |-> response]]
  /\ pc' = [pc EXCEPT ![w] = "remember"]
  /\ UNCHANGED <<called_vars, now>>

\* add_to_short_term(user_input, response, self.current_mode), up to
\* self.short_term_memory.append(entry)
chat_append(w) ==
  /\ pc[w] = "remember"
  /\ short_term_memory' =
       Append(short_term_memory,
              Entry(profile, now + utc_offset, locals[w].user_input, locals[w].response,
                    current_mode))
  /\ turns' = turns + 1
  /\ pc' = [pc EXCEPT ![w] = "check"]
  /\ UNCHANGED <<config_vars, current_mode, config_mode, is_running, model_loaded,
                 conversations, conversations_seq, other_vars, now, op, op_arg, result,
                 printed, backend_calls, logged, locals>>

\* if len(self.short_term_memory) > self.max_short_term
chat_check(w) ==
  /\ pc[w] = "check"
  /\ pc' = [pc EXCEPT ![w] =
              IF Len(short_term_memory) > max_short_term THEN "pop" ELSE "log"]
  /\ UNCHANGED <<called_vars, now, locals>>

\* self.short_term_memory.pop(0); on an empty list it raises IndexError,
\* which nothing in process_input or chat_with_alice catches
chat_pop(w) ==
  /\ pc[w] = "pop"
  /\ IF short_term_memory = <<>>
     THEN /\ pc' = [pc EXCEPT ![w] = "failed"]
          /\ op' = "process_input"
          /\ op_arg' = locals[w].user_input
          /\ result' = Raised("IndexError")
          /\ printed' = <<>>
          /\ backend_calls' = <<locals[w].call>>
          /\ logged' = <<>>
          /\ UNCHANGED short_term_memory
     ELSE /\ pc' = [pc EXCEPT ![w] = "log"]
          /\ short_term_memory' = Tail(short_term_memory)
          /\ UNCHANGED <<op, op_arg, result, printed, backend_calls, logged>>
  /\ UNCHANGED <<config_vars, current_mode, config_mode, is_running, model_loaded,
                 conversations, conversations_seq, turns, other_vars, now, locals>>

\* save_to_long_term(user_input, response, self.current_mode) under
\* log_conversations, the log record, return response
chat_log(w) ==
  /\ pc[w] = "log"
  /\ IF log_conversations
     THEN /\ conversations_seq' = conversations_seq + 1
          /\ conversations' =
               save_to_long_term(conversations, profile, conversations_seq + 1,
                                 now + utc_offset, locals[w].user_input, locals[w].response,
                                 current_mode)
     ELSE UNCHANGED <<conversations, conversations_seq>>
  /\ op' = "process_input"
  /\ op_arg' = locals[w].user_input
  /\ result' = Msg("{}", <<locals[w].response>>)
  /\ printed' = <<>>
  /\ backend_calls' = <<locals[w].call>>
  /\ logged' = <<Msg("Processed input in {} mode", <<current_mode>>)>>
  /\ pc' = [pc EXCEPT ![w] = "done"]
  /\ UNCHANGED <<config_vars, current_mode, config_mode, is_running, model_loaded,
                 short_term_memory, turns, other_vars, now, locals>>

\* chat_with_alice returns (or the exception has reached the server): the
\* worker is free again
chat_return(w) ==
  /\ pc[w] \in {"done", "failed"}
  /\ pc' = [pc EXCEPT ![w] = "idle"]
  /\ locals' = [locals EXCEPT ![w] = NoLocals]
  /\ UNCHANGED <<called_vars, now>>

WebNext ==
  \/ \E w \in Workers :
       /\ turns + Cardinality(BeforeAppend) < MaxWebTurns
       /\ chat_prompt(w, TurnText(turns + Cardinality(BeforeAppend) + 1))
  \/ \E w \in Workers, response \in Responses : chat_generate(w, response)
  \/ \E w \in Workers : chat_append(w)
  \/ \E w \in Workers : chat_check(w)
  \/ \E w \in Workers : chat_pop(w)
  \/ \E w \in Workers : chat_log(w)
  \/ \E w \in Workers : chat_return(w)
  \/ \E w \in Workers, mode_name \in WebModes :
       /\ pc[w] = "idle"
       /\ web_switch_mode(mode_name)
       /\ UNCHANGED front_vars
  \/ \E w \in Workers :
       /\ pc[w] = "idle"
       /\ clear_memory
       /\ UNCHANGED front_vars

SpecWeb == WebInit /\ [][WebNext]_vars


(***************************************************************************)
(* The fact store: MemoryManager.store_user_fact on one database.          *)
(***************************************************************************)
Categories == {"preferences"}

Keys == {"color", "name"}

Values == {"blue", "red"}

\* confidence, in hundredths (the default is 1.0)
Confidences == {100, 50}

\* the arguments of a store_user_fact call
FactArgs(category, key, value, confidence) ==
  [category |-> category, key |-> key, value |-> value, confidence |-> confidence]

NoFactArgs == FactArgs("", "", "", 0)

FactsInit ==
  /\ profile = "full"
  /\ current_mode = "assistant"
  /\ config_mode = current_mode
  /\ log_conversations = TRUE
  /\ memory_retention_days = DefaultRetentionDays(profile)
  /\ is_running = FALSE
  /\ model_loaded = FALSE
  /\ short_term_memory = <<>>
  /\ max_short_term = DefaultMaxShortTerm(profile)
  /\ conversations = <<>>
  /\ conversations_seq = 0
  /\ user_facts = <<>>
  /\ now = 0
  /\ utc_offset = 0
  /\ turns = 0
  /\ op = "init"
  /\ op_arg = NoFactArgs
  /\ result = NoResult
  /\ printed = <<>>
  /\ backend_calls = <<>>
  /\ logged = <<>>
  /\ window = [n |-> 0, entries |-> <<>>]
  /\ peer_memory = <<>>
  /\ peer_mode = "assistant"
  /\ peer_calls = <<>>
  /\ pc = [process \in Processes |-> "idle"]
  /\ locals = [process \in Processes |-> NoLocals]

\* user_facts has one constraint, id INTEGER PRIMARY KEY AUTOINCREMENT, and
\* the INSERT gives no id: OR REPLACE replaces the row whose id is the new
\* row's id, and there is none
insert_or_replace(rows, row) ==
  SelectSeq(rows, LAMBDA r : r.id # row.id) \o <<row>>

\* MemoryManager.store_user_fact: INSERT OR REPLACE INTO user_facts
store_user_fact(category, key, value, confidence) ==
  /\ op' = "store_user_fact"
  /\ op_arg' = FactArgs(category, key, value, confidence)
  /\ user_facts' =
       insert_or_replace(user_facts,
                         [id |-> Len(user_facts) + 1, category |-> category, key |-> key,
                          value |-> value, confidence |-> confidence,
                          last_updated |-> now + utc_offset])
  /\ UNCHANGED <<config_vars, session_vars, now, result, printed, backend_calls, logged, window,
                 peer_memory, peer_mode, peer_calls>>

\* time passes between two calls
fact_tick ==
  /\ now < MaxFactTicks
  /\ now' = now + 1
  /\ UNCHANGED <<config_vars, session_vars, other_vars, op, op_arg, result, printed, backend_calls,
                 logged>>

FactsNext ==
  \/ /\ Len(user_facts) < MaxFacts
     /\ \E category \in Categories, key \in Keys, value \in Values, confidence \in Confidences :
          store_user_fact(category, key, value, confidence)
     /\ UNCHANGED front_vars
  \/ fact_tick /\ UNCHANGED front_vars

SpecFacts == FactsInit /\ [][FactsNext]_vars

(***************************************************************************)
(* Retention: a started Pi engine that logs its turns, a clock, and the    *)
(* '/cleanup' command.                                                     *)
(***************************************************************************)
TicksPerDay == TicksPerSecond * SecondsPerDay

\* memory_retention_days of the loaded configuration
RetentionChoices == {0, 1, DefaultRetentionDays("pi")}

\* the host's timezone: an hour behind UTC, UTC, an hour ahead
UtcOffsets == {0 - 3600 * TicksPerSecond, 0, 3600 * TicksPerSecond}

CleanupInit ==
  /\ profile = "pi"
  /\ current_mode = "assistant"
  /\ config_mode = current_mode
  /\ log_conversations = TRUE
  /\ memory_retention_days \in RetentionChoices
  /\ is_running = TRUE
  /\ model_loaded = TRUE
  /\ short_term_memory = <<>>
  /\ max_short_term = DefaultMaxShortTerm(profile)
  /\ conversations = <<>>
  /\ conversations_seq = 0
  /\ user_facts = <<>>
  /\ now = 0
  /\ utc_offset \in UtcOffsets
  /\ turns = 0
  /\ op = "start"
  /\ op_arg = ""
  /\ result = NoResult
  /\ printed = <<>>
  /\ backend_calls = <<>>
  /\ logged = <<>>
  /\ window = [n |-> 0, entries |-> <<>>]
  /\ peer_memory = <<>>
  /\ peer_mode = "assistant"
  /\ peer_calls = <<>>
  /\ pc = [process \in Processes |-> "idle"]
  /\ locals = [process \in Processes |-> NoLocals]

\* time passes: an instant, or a day
tick(d) ==
  /\ now' = now + d
  /\ now' \div TicksPerDay <= MaxDays
  /\ now' % TicksPerDay <= MaxSubTicks
  /\ op' = "tick"
  /\ op_arg' = ""
  /\ UNCHANGED <<config_vars, session_vars, other_vars, result, printed, backend_calls, logged>>

CleanupNext ==
  \/ /\ turns < MaxRows
     /\ \E user_input \in ChatInputs, response \in Responses :
          process_input(user_input, response, TRUE)
     /\ UNCHANGED front_vars
  \/ process_input("/cleanup", "", TRUE) /\ UNCHANGED front_vars
  \/ \E d \in {1, TicksPerDay} : tick(d) /\ UNCHANGED front_vars

SpecCleanup == CleanupInit /\ [][CleanupNext]_vars

(***************************************************************************)
(* Prompt assembly on two engines side by side: their memories and modes   *)
(* are any two, and one user text goes to both.                            *)
(***************************************************************************)
ComposeTexts == {"hello", "Tell me more"}

\* the modes the two engines may be in
ComposeModes == {"assistant", "companion"}

\* the sequences over S of length at most n
RECURSIVE SeqsUpTo(_, _)
SeqsUpTo(S, n) ==
  IF n = 0 THEN {<<>>}
  ELSE LET shorter == SeqsUpTo(S, n - 1)
       IN  shorter \cup {Append(q, x) : q \in shorter, x \in S}

\* the short-term memories a run of at most MaxMemory turns can leave
Memories(p) ==
  SeqsUpTo({Entry(p, 0, t, "reply", "assistant") : t \in ComposeTexts}, MaxMemory)

ComposeInit ==
  /\ profile \in Profiles
  /\ current_mode \in ComposeModes
  /\ config_mode = current_mode
  /\ log_conversations = TRUE
  /\ memory_retention_days = DefaultRetentionDays(profile)
  /\ is_running = TRUE
  /\ model_loaded = TRUE
  /\ short_term_memory \in Memories(profile)
  /\ max_short_term = DefaultMaxShortTerm(profile)
  /\ conversations = <<>>
  /\ conversations_seq = 0
  /\ user_facts = <<>>
  /\ now = 0
  /\ utc_offset = 0
  /\ turns = 0
  /\ op = "start"
  /\ op_arg = ""
  /\ result = NoResult
  /\ printed = <<>>
  /\ backend_calls = <<>>
  /\ logged = <<>>
  /\ window = [n |-> 0, entries |-> <<>>]
  /\ peer_memory \in Memories(profile)
  /\ peer_mode \in ComposeModes
  /\ peer_calls = <<>>
  /\ pc = [process \in Processes |-> "idle"]
  /\ locals = [process \in Processes |-> NoLocals]

\* both engines assemble the request for the same text
compose_both(user_input) ==
  /\ op' = "compose"
  /\ op_arg' = user_input
  /\ backend_calls' = <<compose(profile, current_mode, short_term_memory, user_input)>>
  /\ peer_calls' = <<compose(profile, peer_mode, peer_memory, user_input)>>
  /\ UNCHANGED <<config_vars, session_vars, user_facts, now, result, printed, logged, window,
                 peer_memory, peer_mode>>

ComposeNext == \E user_input \in ComposeTexts : compose_both(user_input) /\ UNCHANGED front_vars

SpecCompose == ComposeInit /\ [][ComposeNext]_vars

(***************************************************************************)
(* The persona managers, asked for any mode value: an engine constructed   *)
(* from a configuration in any of its modes, started, and its persona      *)
(* manager's lookups called with mapped and unmapped values.               *)
(***************************************************************************)
\* the values a lookup is called with: the modes of the full engine (the Pi
\* persona map has two of them) and two values that are no mode of either
ModeValues == Range(FullModes) \cup {"wizard", "None"}

\* the lookup methods of the persona manager of a profile
PersonaLookups(p) ==
  IF p = "full" THEN {"get_persona", "get_system_prompt"}
  ELSE {"get_system_prompt", "get_greeting"}

PersonaInit ==
  /\ profile \in Profiles
  /\ current_mode \in Modes(profile)
  /\ config_mode = current_mode
  /\ log_conversations \in BOOLEAN
  /\ memory_retention_days = DefaultRetentionDays(profile)
  /\ is_running = FALSE
  /\ model_loaded = FALSE
  /\ short_term_memory = <<>>
  /\ max_short_term = DefaultMaxShortTerm(profile)
  /\ conversations = <<>>
  /\ conversations_seq = 0
  /\ user_facts = <<>>
  /\ now = 0
  /\ utc_offset = 0
  /\ turns = 0
  /\ op = "init"
  /\ op_arg = ""
  /\ result = NoResult
  /\ printed = <<>>
  /\ backend_calls = <<>>
  /\ logged = <<>>
  /\ window = [n |-> 0, entries |-> <<>>]
  /\ peer_memory = <<>>
  /\ peer_mode = "assistant"
  /\ peer_calls = <<>>
  /\ pc = [process \in Processes |-> "idle"]
  /\ locals = [process \in Processes |-> NoLocals]

\* persona_manager.<fn>(mode)
lookup(fn, mode) ==
  /\ op' = fn
  /\ op_arg' = mode
  /\ result' = Msg("return",
                   <<CASE fn = "get_persona" -> get_persona(mode)
                       [] fn = "get_system_prompt" -> get_system_prompt(profile, mode)
                       [] fn = "get_greeting" -> get_greeting(profile, mode)>>)
  /\ printed' = <<>>
  /\ backend_calls' = <<>>
  /\ logged' = <<>>
  /\ UNCHANGED <<config_vars, session_vars, other_vars, now>>

PersonaNext ==
  \/ start(TRUE) /\ UNCHANGED front_vars
  \/ \E fn \in PersonaLookups(profile), mode \in ModeValues : lookup(fn, mode) /\ UNCHANGED front_vars

SpecPersona == PersonaInit /\ [][PersonaNext]_vars

(***************************************************************************)
(* Properties.                                                             *)
(***************************************************************************)
Min(a, b) == IF a <= b THEN a ELSE b

\* the texts of the k most recent of the first n turns, oldest first
RecentTexts(n, k) == [i \in 1..k |-> TurnText(n - k + i)]

\* the user inputs of a sequence of entries
UserInputs(entries) == [i \in 1..Len(entries) |-> entries[i].user_input]

\* C1: after k chat turns from an empty buffer the short-term memory holds
\* min(k, max_short_term) entries, never more than max_short_term (20 in the
\* full profile, 5 in the Pi profile), and they are the most recent turns
\* in the order they were appended.
C1_FifoEviction ==
  /\ DefaultMaxShortTerm("full") = 20
  /\ DefaultMaxShortTerm("pi") = 5
  /\ Len(short_term_memory) <= max_short_term
  /\ Len(short_term_memory) = Min(turns, max_short_term)
  /\ UserInputs(short_term_memory) = RecentTexts(turns, Len(short_term_memory))

\* C1: the full engine's buffer is full and has evicted its oldest turn
C1_Witness ==
  /\ profile = "full"
  /\ max_short_term = 20
  /\ turns = 21
  /\ Len(short_term_memory) = 20
  /\ short_term_memory[1].user_input = TurnText(2)
  /\ short_term_memory[20].user_input = TurnText(21)

\* the user texts of the "Human" lines of a prompt, in order
HumanLines(prompt) ==
  LET lines == SelectSeq(prompt, LAMBDA piece : piece.k = "Human: {}\n")
  IN  [i \in 1..Len(lines) |-> lines[i].v]

\* C10: a slice of size n of the short-term memory is its last min(n, size)
\* turns, oldest first; with max_short_term = 2 and three turns appended the
\* slice of size 2 holds the second and the third; the prompt of a chat turn
\* shows the last 3 turns before it in the full engine and the last 2 in the
\* Pi engine.
C10_PromptWindow ==
  /\ op = "window" =>
       LET m == Min(window.n, Len(short_term_memory))
       IN  /\ Len(window.entries) = m
           /\ \A i \in 1..m :
                window.entries[i] = short_term_memory[Len(short_term_memory) - m + i]
           /\ UserInputs(window.entries) = RecentTexts(turns, m)
  /\ (op = "window" /\ max_short_term = 2 /\ turns = 3 /\ window.n = 2) =>
       UserInputs(window.entries) = <<TurnText(2), TurnText(3)>>
  /\ op = "process_input" =>
       LET before == Min(turns - 1, max_short_term)
           n == IF profile = "full" THEN 3 ELSE 2
       IN  HumanLines(backend_calls[1].prompt) = RecentTexts(turns - 1, Min(n, before))

\* C10: the buffer of two after three turns, sliced by two
C10_Witness ==
  /\ op = "window"
  /\ max_short_term = 2
  /\ turns = 3
  /\ window.n = 2
  /\ UserInputs(window.entries) = <<"2", "3">>


\* what the engine holds apart from the record of its last operation
engine_state == <<config_vars, session_vars, user_facts, now>>

\* C2: process_input on an engine that is not running returns the fixed
\* not-running message, asks nothing of the backend and changes nothing:
\* short-term memory, modes, running flag, conversation log all stay.
C2_NotRunningNoChange ==
  [][(op' = "process_input" /\ ~is_running) =>
       /\ result' = IF profile = "full"
                    THEN Msg("ALICE system is not running. Please start the system first.", <<>>)
                    ELSE Msg("System not running.", <<>>)
       /\ backend_calls' = <<>>
       /\ UNCHANGED engine_state]_vars

\* C2: a stopped engine that holds a turn was handed an input
C2_Witness ==
  /\ ~is_running
  /\ op = "process_input"
  /\ op_arg \in ChatInputs
  /\ Len(short_term_memory) = 1
  /\ result.msg = "ALICE system is not running. Please start the system first."

\* the '/mode <name>' lines of the input set and the name each asks for
ModeRequests ==
  {<<"/mode assistant", "assistant">>, <<"/mode companion", "companion">>,
   <<"/MODE Companion ", "companion">>, <<"/mode roleplay", "roleplay">>,
   <<"/mode dungeon_master", "dungeon_master">>, <<"/mode storyteller", "storyteller">>,
   <<"/mode wizard", "wizard">>}

IsModeRequest(line) == \E mr \in ModeRequests : mr[1] = line

RequestedMode(line) == (CHOOSE mr \in ModeRequests : mr[1] = line)[2]

\* the greeting of a persona, from the persona tables
GreetingOf(p, mode) == IF p = "full" THEN FullPersonas[mode].greeting ELSE PiPersonas[mode].greeting

\* C3: on a running engine '/mode <name>' with a name that is not one of the
\* engine's modes changes nothing and returns an error message that lists
\* every valid mode name.
C3_UnknownModeRejected ==
  [][(/\ op' = "process_input"
      /\ is_running
      /\ IsModeRequest(op_arg')
      /\ RequestedMode(op_arg') \notin Modes(profile)) =>
       /\ UNCHANGED engine_state
       /\ backend_calls' = <<>>
       /\ result'.msg = IF profile = "full" THEN "Unknown mode: {}. Available modes: {}"
                        ELSE "Unknown mode. Use: {} or {}"
       /\ Modes(profile) \subseteq Range(result'.args)]_vars

\* C3: an unknown mode was asked of a running engine in companion mode
C3_Witness ==
  /\ op = "process_input"
  /\ op_arg = "/mode wizard"
  /\ is_running
  /\ current_mode = "companion"
  /\ result.msg = "Unknown mode: {}. Available modes: {}"
  /\ Range(FullModes) \subseteq Range(result.args)

\* C4 as claimed: on a running full engine '/mode <name>' with any of the
\* five mode names always changes the mode, to the named one, and returns
\* the target persona's greeting.
C4_AlwaysChanges ==
  [][(/\ op' = "process_input"
      /\ is_running
      /\ profile = "full"
      /\ IsModeRequest(op_arg')
      /\ RequestedMode(op_arg') \in Range(FullModes)) =>
       /\ current_mode' # current_mode
       /\ current_mode' = RequestedMode(op_arg')
       /\ GreetingOf(profile, RequestedMode(op_arg')) \in Range(result'.args)]_vars

\* C4: on a running engine '/mode <name>' with one of the engine's mode
\* names leaves the engine in the named mode; if the name is not the current
\* mode the returned text carries the target persona's greeting, and if it
\* is, the text is the already-in-mode message.
C4_SwitchToNamedMode ==
  [][(/\ op' = "process_input"
      /\ is_running
      /\ IsModeRequest(op_arg')
      /\ RequestedMode(op_arg') \in Modes(profile)) =>
       LET name == RequestedMode(op_arg')
       IN  /\ current_mode' = name
           /\ IF name # current_mode
              THEN GreetingOf(profile, name) \in Range(result'.args)
              ELSE result' = Msg("Already in {} mode.", <<name>>)]_vars

\* C4: the engine was switched to storyteller by '/mode storyteller'
C4_Witness ==
  /\ op = "process_input"
  /\ op_arg = "/mode storyteller"
  /\ is_running
  /\ current_mode = "storyteller"
  /\ "Once upon a time... I'm ALICE in Storyteller mode. What tale shall we weave together?"
       \in Range(result.args)

\* C5: a switch to the mode that is current, from the web interface or by
\* '/mode', returns the already-in-mode message, changes neither the current
\* mode nor the configuration's mode nor anything else, and writes no
\* transition record to the log.
C5_SameModeNoOp ==
  [][\A target \in Modes(profile) :
       (/\ target = current_mode
        /\ \/ op' = "switch_mode" /\ op_arg' = target
           \/ /\ op' = "process_input"
              /\ is_running
              /\ IsModeRequest(op_arg')
              /\ RequestedMode(op_arg') = target) =>
         /\ result' = Msg("Already in {} mode.", <<target>>)
         /\ UNCHANGED <<current_mode, config_mode>>
         /\ UNCHANGED engine_state
         /\ logged' = <<>>]_vars

\* C5: '/mode companion' was repeated in companion mode
C5_Witness ==
  /\ op = "process_input"
  /\ op_arg = "/mode companion"
  /\ is_running
  /\ current_mode = "companion"
  /\ config_mode = "companion"
  /\ result = Msg("Already in {} mode.", <<"companion">>)
  /\ logged = <<>>

\* the assistant persona's template of the full engine, rendered
AssistantSystemPrompt ==
  <<Piece("You are {}.", "ALICE Assistant"),
    Piece("Personality: {}", "Professional, helpful, and informative. Focuses on practical assistance."),
    Piece("Communication Style: {}", "Clear, concise, and organized responses. Uses bullet points when appropriate."),
    Piece("Restrictions:", ""),
    Piece("- {}", "Keep responses PG-13"),
    Piece("- {}", "Focus on factual information"),
    Piece("- {}", "Avoid controversial topics"),
    Piece("Remember to stay in character for this mode while being helpful and engaging.", "")>>

\* C9: a chat input t to a running engine with an empty short-term memory
\* goes to the backend as the prompt t alone, with the system prompt of the
\* current mode's persona; afterwards the short-term memory holds one turn.
C9_FirstTurnPrompt ==
  [][(/\ op' = "process_input"
      /\ is_running
      /\ op_arg' \in ChatInputs
      /\ short_term_memory = <<>>) =>
       /\ Len(backend_calls') = 1
       /\ backend_calls'[1].fn = "generate_response"
       /\ backend_calls'[1].prompt = <<Piece("{}", op_arg')>>
       /\ backend_calls'[1].system_prompt = get_system_prompt(profile, current_mode)
       /\ (profile = "full" /\ current_mode = "assistant") =>
            backend_calls'[1].system_prompt = AssistantSystemPrompt
       /\ (profile = "pi" /\ current_mode = "assistant") =>
            backend_calls'[1].system_prompt =
              <<Piece("{}", "You are a helpful AI assistant. Keep responses brief and focused.")>>
       /\ Len(short_term_memory') = 1]_vars

\* C9: "hello" was the first turn of a full engine in assistant mode
C9_Witness ==
  /\ op = "process_input"
  /\ op_arg = "hello"
  /\ profile = "full"
  /\ current_mode = "assistant"
  /\ turns = 1
  /\ Len(short_term_memory) = 1
  /\ backend_calls = <<Call("generate_response", AssistantSystemPrompt, <<Piece("{}", "hello")>>)>>

\* the facts stored under a (category, key) pair
FactsFor(category, key) ==
  SelectSeq(user_facts, LAMBDA f : f.category = category /\ f.key = key)

\* C6: after any sequence of store_user_fact calls the fact store holds
\* exactly one fact per (category, key) pair that was written, and after a
\* call that fact carries the call's value and confidence and the time of
\* the call.
C6_OneFactPerKey ==
  /\ \A category \in Categories, key \in Keys : Len(FactsFor(category, key)) <= 1
  /\ op = "store_user_fact" =>
       LET facts == FactsFor(op_arg.category, op_arg.key)
       IN  /\ Len(facts) = 1
           /\ facts[1].value = op_arg.value
           /\ facts[1].confidence = op_arg.confidence
           /\ facts[1].last_updated = now + utc_offset

\* the instant the cleanup's cutoff names: the current second less the
\* retention period
CutoffInstant ==
  ((now \div TicksPerSecond) - memory_retention_days * SecondsPerDay) * TicksPerSecond

\* the rows of the conversation log that do not predate the cutoff, in order
RowsToKeep == SelectSeq(conversations, LAMBDA r : ~(r.timestamp < CutoffInstant))

PromptWindow(stm) ==
  LET k == Min(IF profile = "full" THEN 3 ELSE 2, Len(stm))
  IN  [i \in 1..k |-> stm[Len(stm) - k + i]]

\* C8: two engines in the same mode whose memories have the same prompt
\* window hand the backend the same system prompt and the same prompt body
\* for the same user text, whatever their older turns are.
C8_ComposeDeterministic ==
  (/\ op = "compose"
   /\ current_mode = peer_mode
   /\ PromptWindow(short_term_memory) = PromptWindow(peer_memory)) =>
    backend_calls = peer_calls

\* C8: two engines with different histories of different lengths and the
\* same prompt window made the same request
C8_Witness ==
  /\ op = "compose"
  /\ current_mode = peer_mode
  /\ Len(short_term_memory) = MaxMemory
  /\ Len(peer_memory) < Len(short_term_memory)
  /\ short_term_memory[1] # short_term_memory[MaxMemory]
  /\ PromptWindow(short_term_memory) = PromptWindow(peer_memory)
  /\ Len(backend_calls) = 1
  /\ backend_calls = peer_calls

\* the ids of the rows of a conversation log
RowIds(rows) == {rows[i].id : i \in DOMAIN rows}

\* C11: while running, an input that starts with '/' makes no
\* generate_response call, leaves the short-term memory as it was and adds
\* no row to the conversation log.
C11_CommandsLeaveMemory ==
  [][(/\ op' = "process_input"
      /\ is_running
      /\ op_arg' \in CommandInputs) =>
       /\ \A i \in DOMAIN backend_calls' : backend_calls'[i].fn # "generate_response"
       /\ short_term_memory' = short_term_memory
       /\ RowIds(conversations') \subseteq RowIds(conversations)
       /\ conversations_seq' = conversations_seq]_vars

\* C11: '/status' was processed by a running engine that holds a turn in
\* memory and in the log
C11_Witness ==
  /\ op = "process_input"
  /\ op_arg = "/status"
  /\ is_running
  /\ Len(short_term_memory) = 1
  /\ Len(conversations) = 1
  /\ backend_calls = <<>>

\* C12: start() on an engine that is already running makes no call to the
\* backend and changes nothing of the session.
C12_StartIdempotent ==
  [][(op' = "start" /\ is_running) =>
       /\ backend_calls' = <<>>
       /\ engine_state' = engine_state]_vars

\* the texts written to standard output
PrintedTexts(out) == UNION {Range(out[i].args) : i \in DOMAIN out}

\* C13, as stated: start() on a stopped engine requests the backend to load,
\* sets running to true and returns the greeting of the persona of the
\* current mode.
C13_StartReturnsGreeting ==
  [][(op' = "start" /\ ~is_running) =>
       /\ backend_calls' = <<Call("load_model", <<>>, <<>>)>>
       /\ is_running'
       /\ GreetingOf(profile, current_mode) \in Range(result'.args)]_vars

\* C13: start() on a stopped engine requests the backend to load and leaves
\* running true whether or not the load succeeds; when the load succeeds it
\* writes the greeting of the persona of the current mode to standard output
\* and returns None (full) or True (Pi); when the load fails it writes no
\* greeting, and the exception escapes (full) or it returns False (Pi).
C13_StartPrintsGreeting ==
  [][(op' = "start" /\ ~is_running) =>
       /\ backend_calls' = <<Call("load_model", <<>>, <<>>)>>
       /\ is_running'
       /\ UNCHANGED <<current_mode, short_term_memory, conversations>>
       /\ IF model_loaded'
          THEN /\ GreetingOf(profile, current_mode) \in PrintedTexts(printed')
               /\ result' = IF profile = "full" THEN NoResult ELSE Msg("True", <<>>)
          ELSE /\ GreetingOf(profile, current_mode) \notin PrintedTexts(printed')
               /\ result' = IF profile = "full" THEN Raised("load_model")
                            ELSE Msg("False", <<>>)]_vars

\* C13: a full engine was started in companion mode and wrote that persona's
\* greeting
C13_Witness ==
  /\ op = "start"
  /\ profile = "full"
  /\ current_mode = "companion"
  /\ is_running
  /\ model_loaded
  /\ result = NoResult
  /\ printed = <<Msg("\n{}\n", <<"Hey there! I'm ALICE in Companion mode. What's on your mind?">>)>>

\* C14: stop() requests the backend to unload and leaves running false,
\* without an error; on an engine that is already stopped it changes
\* nothing, so a second stop() leaves what the first one left.
C14_StopSafe ==
  [][op' = "stop" =>
       /\ backend_calls' = <<Call("unload_model", <<>>, <<>>)>>
       /\ ~is_running'
       /\ result' = NoResult
       /\ ~is_running => engine_state' = engine_state]_vars

\* C14: a running engine that had taken a turn was stopped
C14_Witness ==
  /\ op = "stop"
  /\ ~is_running
  /\ ~model_loaded
  /\ turns = 1
  /\ backend_calls = <<Call("unload_model", <<>>, <<>>)>>

\* C15: on a running engine '/quit' requests the backend to unload and sets
\* running to false; while running is false every process_input returns the
\* not-running message, and only start() sets running to true again.
C15_QuitStops ==
  [][/\ (op' = "process_input" /\ is_running /\ op_arg' = "/quit") =>
          /\ backend_calls' = <<Call("unload_model", <<>>, <<>>)>>
          /\ ~is_running'
     /\ (op' = "process_input" /\ ~is_running) =>
          /\ result'.msg = IF profile = "full"
                           THEN "ALICE system is not running. Please start the system first."
                           ELSE "System not running."
          /\ ~is_running'
     /\ (~is_running /\ is_running') => op' = "start"]_vars

\* C15: '/quit' stopped an engine that had taken a turn
C15_Witness ==
  /\ op = "process_input"
  /\ op_arg = "/quit"
  /\ ~is_running
  /\ turns = 1
  /\ backend_calls = <<Call("unload_model", <<>>, <<>>)>>
  /\ result.msg \in {"Goodbye! ALICE system stopped.", "Goodbye!"}

\* C16: a chat turn of a running engine whose backend raises, or holds no
\* model, still returns a text: the backend's exception does not leave
\* process_input, and the engine is running afterwards.
C16_BackendErrorAnswered ==
  [][(/\ op' = "process_input"
      /\ is_running
      /\ op_arg' \in ChatInputs) =>
       /\ result' # Raised("generate_response")
       /\ is_running'
       /\ (~model_loaded /\ result' # Raised("sqlite3.Error")) =>
            result' = Msg("{}", <<NotLoadedResponse(profile)>>)]_vars

\* C17: a chat turn of a running engine with log_conversations set returns
\* the generated response even when the INSERT into the conversation log
\* fails: the storage error does not leave process_input.
C17_StorageFailureSwallowed ==
  [][(/\ op' = "process_input"
      /\ is_running
      /\ op_arg' \in ChatInputs
      /\ log_conversations) =>
       result' # Raised("sqlite3.Error")]_vars

\* C18: when the INSERT into the conversation log fails during a chat turn
\* the short-term memory has the turn all the same (one entry more, up to
\* max_short_term, the newest being this turn), no row was added, the engine
\* is still running, and a process_input after it is not refused.
C18_MemoryUpdatedOnStorageFailure ==
  [][/\ (op' = "process_input" /\ result' = Raised("sqlite3.Error")) =>
          /\ Len(short_term_memory') = Min(Len(short_term_memory) + 1, max_short_term)
          /\ short_term_memory'[Len(short_term_memory')].user_input = op_arg'
          /\ conversations' = conversations
          /\ is_running'
     /\ (op = "process_input" /\ result = Raised("sqlite3.Error") /\ op' = "process_input") =>
          result' # NotRunningMsg(profile)]_vars

\* C18: the first turn was logged, the INSERT of the second failed, and the
\* memory holds both
C18_Witness ==
  /\ op = "process_input"
  /\ result = Raised("sqlite3.Error")
  /\ is_running
  /\ Len(short_term_memory) = 2
  /\ Len(conversations) = 1

\* the short-term memory after one more turn whose entry is e
Remembered(stm, e) ==
  IF Len(stm) + 1 > max_short_term THEN Tail(stm) \o <<e>> ELSE stm \o <<e>>

\* C19: a chat turn of a running engine with log_conversations false adds no
\* row to the conversation log, and with it true adds one; either way the
\* short-term memory afterwards is the memory before with this turn appended
\* (and the oldest dropped at the bound).
C19_PersistenceIndependent ==
  [][(/\ op' = "process_input"
      /\ is_running
      /\ op_arg' \in ChatInputs
      /\ result'.msg # "raise") =>
       /\ ~log_conversations =>
            (conversations' = conversations /\ conversations_seq' = conversations_seq)
       /\ log_conversations => Len(conversations') = Len(conversations) + 1
       /\ short_term_memory' # <<>>
       /\ LET e == short_term_memory'[Len(short_term_memory')]
          IN  /\ e.user_input = op_arg'
              /\ e.alice_response = result'.args[1]
              /\ e.mode = current_mode
              /\ short_term_memory' = Remembered(short_term_memory, e)]_vars

\* C19: two turns were taken with log_conversations false
C19_Witness ==
  /\ op = "process_input"
  /\ op_arg = "hello"
  /\ ~log_conversations
  /\ Len(short_term_memory) = 2
  /\ conversations = <<>>
  /\ conversations_seq = 0

\* the mode whose persona a lookup answers with
AnsweredMode(p, mode) ==
  IF mode \in (IF p = "full" THEN DOMAIN FullPersonas ELSE DOMAIN PiPersonas)
  THEN mode ELSE "assistant"

\* C20: every persona lookup returns, for a mode the persona map holds, the
\* data of that mode's persona, and for any other value the data of the
\* assistant persona, never an empty one.
C20_PersonaFallback ==
  (op \in {"get_persona", "get_system_prompt", "get_greeting"}) =>
    LET m == AnsweredMode(profile, op_arg)
        value == result.args[1]
    IN  /\ op = "get_persona" =>
             /\ value = FullPersonas[m]
             /\ value.name # "" /\ value.greeting # ""
        /\ op = "get_greeting" =>
             /\ value = PiPersonas[m].greeting
             /\ value # ""
        /\ (op = "get_system_prompt" /\ profile = "pi") =>
             value = <<Piece("{}", PiPersonas[m].system_prompt)>>
        /\ (op = "get_system_prompt" /\ profile = "full") =>
             /\ value[1] = Piece("You are {}.", FullPersonas[m].name)
             /\ value[2] = Piece("Personality: {}", FullPersonas[m].personality)
             /\ Len(value) = 5 + Len(FullPersonas[m].restrictions)

\* C20: the full persona manager was asked for the system prompt of a value
\* that is no mode and answered with the assistant's
C20_Witness ==
  /\ op = "get_system_prompt"
  /\ op_arg = "wizard"
  /\ profile = "full"
  /\ result.args[1] = AssistantSystemPrompt

\* the commands of the grammar table, as typed
TableLines ==
  {"/help", "/mode assistant", "/mode companion", "/status", "/memory", "/facts", "/config",
   "/save", "/cleanup", "/cleanup 3", "/quit"}

\* the "unknown command" texts of the two dispatchers
UnknownCommandTexts ==
  {"Unknown command: {}. Type /help for available commands.",
   "Unknown command. Type /help for options."}

\* the lines of the table each dispatcher has a branch for
HandledLines(p) ==
  {"/help", "/mode assistant", "/mode companion", "/status", "/memory", "/quit"}
    \cup (IF p = "full" THEN {"/config", "/save"} ELSE {"/cleanup"})

\* C21, as stated: on a running engine of either profile no command of the
\* grammar table is answered with the "unknown command" text.
C21_EveryCommandHandled ==
  [][(/\ op' = "process_input"
      /\ is_running
      /\ op_arg' \in TableLines) =>
       result'.msg \notin UnknownCommandTexts]_vars

\* C21: each dispatcher handles the commands its own '/help' lists: both
\* handle /help, /mode <name>, /status, /memory and /quit, the full one also
\* /config and /save, the Pi one also /cleanup (without an argument); every
\* other command of the table is answered with the "unknown command" text.
C21_OwnTableHandled ==
  [][(/\ op' = "process_input"
      /\ is_running
      /\ op_arg' \in TableLines) =>
       (result'.msg \in UnknownCommandTexts <=> op_arg' \notin HandledLines(profile))]_vars

\* C21: the Pi dispatcher ran '/cleanup'
C21_Witness ==
  /\ op = "process_input"
  /\ op_arg = "/cleanup"
  /\ profile = "pi"
  /\ is_running
  /\ result.msg = "Cleaned conversations older than {} days."

\* C22: current_mode is always one of the engine's modes, and it changes
\* only in a switch_mode call of the front-end or a '/mode <name>' command
\* of a running engine, to the mode that was named; chat turns, the other
\* commands, start(), stop() and clear_memory leave it as it was.
C22_ModeChangesOnlyBySwitch ==
  [][/\ current_mode \in Modes(profile)
     /\ current_mode' \in Modes(profile)
     /\ current_mode' # current_mode =>
          \/ op' = "switch_mode" /\ current_mode' = op_arg'
          \/ /\ op' = "process_input"
             /\ is_running
             /\ IsModeRequest(op_arg')
             /\ current_mode' = RequestedMode(op_arg')]_vars

\* C22: an engine in storyteller mode took a chat turn and was stopped
C22_Witness ==
  /\ op = "stop"
  /\ current_mode = "storyteller"
  /\ Len(short_term_memory) = 1
  /\ short_term_memory[1].mode = "storyteller"

\* C23: clear_memory empties the short-term memory and leaves the
\* conversation log, the facts, the current mode and the running flag as
\* they were.
C23_ClearMemoryFrame ==
  [][op' = "clear_memory" =>
       /\ short_term_memory' = <<>>
       /\ UNCHANGED <<conversations, conversations_seq, user_facts, current_mode,
                      config_mode, is_running>>]_vars

\* C23: the memory of a running engine with two logged turns was cleared
C23_Witness ==
  /\ op = "clear_memory"
  /\ is_running
  /\ short_term_memory = <<>>
  /\ turns = 2
  /\ Len(conversations) = 2

\* s is an initial part of t
IsPrefix(s, t) == Len(s) <= Len(t) /\ SubSeq(t, 1, Len(s)) = s

\* C24: a chat turn of a running engine with log_conversations set whose
\* INSERT succeeds adds one row, after the rows already there, with the
\* turn's text, response and mode and an id above every earlier one; and
\* apart from the Pi engine's '/cleanup' no operation removes or rewrites a
\* row.
C24_LogAppendOnly ==
  [][/\ (/\ op' = "process_input"
         /\ is_running
         /\ op_arg' \in ChatInputs
         /\ log_conversations
         /\ result'.msg # "raise") =>
          /\ Len(conversations') = Len(conversations) + 1
          /\ LET row == conversations'[Len(conversations')]
             IN  /\ row.user_input = op_arg'
                 /\ row.alice_response = result'.args[1]
                 /\ row.mode = current_mode
                 /\ \A i \in DOMAIN conversations : conversations[i].id < row.id
     /\ ~(op' = "process_input" /\ is_running /\ profile = "pi" /\ op_arg' = "/cleanup") =>
          IsPrefix(conversations, conversations')]_vars

\* C24: two turns were logged, in the order they were taken
C24_Witness ==
  /\ op = "process_input"
  /\ op_arg = "hello"
  /\ log_conversations
  /\ Len(conversations) = 2
  /\ conversations[1].id = 1
  /\ conversations[2].id = 2

\* the Human and AI lines of a window, turn by turn
WindowLines(w) ==
  [i \in 1..(2 * Len(w)) |->
     IF i % 2 = 1 THEN Piece("Human: {}\n", w[(i + 1) \div 2].user_input)
     ELSE Piece("AI: {}\n", w[i \div 2].alice_response)]

\* the prompt body with header and separator around the window
WrappedBody(w, text) ==
  <<Piece("Previous conversation:\n", "")>> \o WindowLines(w)
    \o <<Piece("\nCurrent conversation:\n", "")>> \o <<Piece("{}", text)>>

\* C25, as stated: with a non-empty prompt window the prompt body of either
\* engine is the "previous conversation" header, the window's turns as Human
\* and AI lines in order, the "current conversation" separator and the user
\* text; with an empty window it is the user text alone.
C25_HeaderAndSeparator ==
  [][(op' = "process_input" /\ is_running /\ ~StartsWithSlash(op_arg')) =>
       backend_calls'[1].prompt =
         IF short_term_memory # <<>>
         THEN WrappedBody(PromptWindow(short_term_memory), op_arg')
         ELSE <<Piece("{}", op_arg')>>]_vars

\* C25: with a non-empty prompt window the prompt body of the full engine is
\* the "previous conversation" header, the window's turns as Human and AI
\* lines in order, the "current conversation" separator and the user text;
\* that of the Pi engine is the window's lines and the user text, without
\* header or separator; with an empty window both are the user text alone.
C25_PromptBody ==
  [][(op' = "process_input" /\ is_running /\ ~StartsWithSlash(op_arg')) =>
       backend_calls'[1].prompt =
         IF short_term_memory = <<>> THEN <<Piece("{}", op_arg')>>
         ELSE IF profile = "full"
              THEN WrappedBody(PromptWindow(short_term_memory), op_arg')
              ELSE WindowLines(PromptWindow(short_term_memory)) \o <<Piece("{}", op_arg')>>]_vars

\* C25: the fifth turn of a full engine went out with the three turns before
\* it between header and separator
C25_Witness ==
  /\ op = "process_input"
  /\ profile = "full"
  /\ turns = 5
  /\ backend_calls[1].prompt =
       <<Piece("Previous conversation:\n", ""),
         Piece("Human: {}\n", "2"), Piece("AI: {}\n", "reply"),
         Piece("Human: {}\n", "3"), Piece("AI: {}\n", "reply"),
         Piece("Human: {}\n", "4"), Piece("AI: {}\n", "reply"),
         Piece("\nCurrent conversation:\n", ""), Piece("{}", "5")>>

\* a step is a switch to target, a mode of the engine other than the current
IsSwitchTo(target) ==
  /\ target \in Modes(profile)
  /\ target # current_mode
  /\ \/ op' = "switch_mode" /\ op_arg' = target
     \/ /\ op' = "process_input"
        /\ is_running
        /\ IsModeRequest(op_arg')
        /\ RequestedMode(op_arg') = target

\* C26, as stated: a switch to a mode other than the current one sets the
\* current mode to the target in that step, returns a text with the target
\* persona's name (for the Pi personas, which have none, the mode) and
\* greeting, and writes exactly one log record, which names the previous
\* and the next mode.
C26_EventNamesBothModes ==
  [][\A target \in ModeNames :
       IsSwitchTo(target) =>
         /\ current_mode' = target
         /\ (IF profile = "full" THEN FullPersonas[target].name ELSE target)
              \in Range(result'.args)
         /\ GreetingOf(profile, target) \in Range(result'.args)
         /\ Len(logged') = 1
         /\ {current_mode, target} \subseteq Range(logged'[1].args)]_vars

\* C26: a switch to a mode other than the current one sets the current mode
\* to the target in that step and writes exactly one log record; in the full
\* engine the returned text carries the target persona's name and greeting
\* and the record names the previous and the next mode; in the Pi engine the
\* text carries the mode's value and the greeting and the record names the
\* next mode alone.
C26_SwitchToOtherMode ==
  [][\A target \in ModeNames :
       IsSwitchTo(target) =>
         /\ current_mode' = target
         /\ GreetingOf(profile, target) \in Range(result'.args)
         /\ Len(logged') = 1
         /\ IF profile = "full"
            THEN /\ FullPersonas[target].name \in Range(result'.args)
                 /\ logged'[1] = Msg("Switched from {} to {} mode", <<current_mode, target>>)
            ELSE /\ target \in Range(result'.args)
                 /\ logged'[1] = Msg("Switched to {}", <<target>>)]_vars

\* C26: a full engine went from companion to dungeon_master
C26_Witness ==
  /\ profile = "full"
  /\ current_mode = "dungeon_master"
  /\ "ALICE DM" \in Range(result.args)
  /\ logged = <<Msg("Switched from {} to {} mode", <<"companion", "dungeon_master">>)>>

\* the command a line holds once lower-cased and rid of the blanks around it
CommandIn(line) ==
  CASE line \in {"/help", "/HELP", " /help"} -> "/help"
    [] line \in {"/status", "/Status "} -> "/status"
    [] line \in {"/quit", "/quit  ", " /quit"} -> "/quit"
    [] line \in {"/mode companion", "/MODE Companion "} -> "/mode companion"
    [] OTHER -> ""

\* the step ran the command cmd
Ran(cmd) ==
  CASE cmd = "/help" -> result'.msg \in {"ALICE System Commands:", "Commands:"}
    [] cmd = "/status" -> result'.msg \in {"ALICE System Status:", "Status:"}
    [] cmd = "/quit" -> ~is_running' /\ result'.msg \in {"Goodbye! ALICE system stopped.", "Goodbye!"}
    [] cmd = "/mode companion" ->
         /\ current_mode' = "companion"
         /\ result'.msg \in {"Switched to {} mode.\n{}", "Already in {} mode."}

\* the lines that start with '/' and match no branch of either dispatcher
UnmatchedLines == {"/dance", "/facts", "/mode", "/mode ", "/cleanup 3"}

\* an unmatched line is answered with the "unknown command" text, changes
\* nothing of the session and leaves the engine running
UnmatchedAnswered ==
  (op' = "process_input" /\ is_running /\ op_arg' \in UnmatchedLines) =>
    /\ result'.msg \in UnknownCommandTexts
    /\ engine_state' = engine_state
    /\ is_running'
    /\ backend_calls' = <<>>

\* C27, as stated: on a running engine a command runs whatever its case and
\* whatever blanks surround it, before or after; and a line that starts with
\* '/' and matches no command is answered with the "unknown command" text,
\* changes nothing and leaves the engine running.
C27_SurroundingBlanksIgnored ==
  [][/\ (op' = "process_input" /\ is_running /\ CommandIn(op_arg') # "") =>
          Ran(CommandIn(op_arg'))
     /\ UnmatchedAnswered]_vars

\* C28: a chat turn of a running engine makes one call of the backend, with
\* the system prompt of the current mode and a prompt built from the window
\* of the memory as it was before the turn, so that the turn is not in its
\* own prompt; then it appends one entry with the mode, the text and the
\* response to the short-term memory, and one row with the same to the
\* conversation log if log_conversations is set, none otherwise; the entry
\* is the last of the window the next turn sees.
C28_ChatTurnOrder ==
  [][(op' = "process_input" /\ is_running /\ op_arg' \in ChatInputs) =>
       /\ Len(backend_calls') = 1
       /\ backend_calls'[1].fn = "generate_response"
       /\ backend_calls'[1].system_prompt = get_system_prompt(profile, current_mode)
       /\ backend_calls'[1].prompt =
            IF short_term_memory = <<>> THEN <<Piece("{}", op_arg')>>
            ELSE IF profile = "full"
                 THEN WrappedBody(PromptWindow(short_term_memory), op_arg')
                 ELSE WindowLines(PromptWindow(short_term_memory)) \o <<Piece("{}", op_arg')>>
       /\ Len(HumanLines(backend_calls'[1].prompt)) = Len(PromptWindow(short_term_memory))
       /\ result'.msg = "{}"
       /\ short_term_memory' # <<>>
       /\ LET e == short_term_memory'[Len(short_term_memory')]
              w == PromptWindow(short_term_memory')
          IN  /\ e.mode = current_mode
              /\ e.user_input = op_arg'
              /\ e.alice_response = result'.args[1]
              /\ short_term_memory' = Remembered(short_term_memory, e)
              /\ w[Len(w)] = e
       /\ IF log_conversations
          THEN /\ Len(conversations') = Len(conversations) + 1
               /\ SubSeq(conversations', 1, Len(conversations)) = conversations
               /\ LET r == conversations'[Len(conversations')]
                  IN  /\ r.mode = current_mode
                      /\ r.user_input = op_arg'
                      /\ r.alice_response = result'.args[1]
          ELSE conversations' = conversations]_vars

\* C28: the second turn of a logging engine, taken after a mode switch, went
\* out with the first turn alone in its prompt and is remembered and logged
\* after it under its own mode
C28_Witness ==
  /\ op = "process_input"
  /\ op_arg = "hello"
  /\ log_conversations
  /\ Len(short_term_memory) = 2
  /\ short_term_memory[1].mode # short_term_memory[2].mode
  /\ short_term_memory[2].mode = current_mode
  /\ Len(HumanLines(backend_calls[1].prompt)) = 1
  /\ Len(conversations) = 2
  /\ conversations[2].mode = current_mode

\* C29, as stated: the short-term memory of a newly constructed engine is
\* empty, and the short-term memory of an engine that stop() has just
\* stopped is empty.
C29_MemoryClearedByStop ==
  /\ op = "init" => short_term_memory = <<>>
  /\ op = "stop" => short_term_memory = <<>>

\* C30: in the full engine the mode of the session and the current_mode of
\* the configuration record are equal in every reachable state.
C30_ModeMatchesConfig ==
  profile = "full" => current_mode = config_mode

\* C30: the full engine switched to the storyteller mode, session and
\* configuration record alike
C30_Witness ==
  /\ profile = "full"
  /\ op = "switch_mode"
  /\ current_mode = "storyteller"
  /\ config_mode = "storyteller"

\* the step is a mode switch: a switch_mode call of the front-end or a
\* '/mode <name>' command of a running engine that names one of its modes
IsModeSwitch ==
  \/ op' = "switch_mode"
  \/ /\ op' = "process_input"
     /\ is_running
     /\ IsModeRequest(op_arg')
     /\ RequestedMode(op_arg') \in Modes(profile)

\* the user texts of a sequence of turns, in order
TextsOf(turn_seq) == [i \in DOMAIN turn_seq |-> turn_seq[i].user_input]

\* C31: a mode switch leaves the short-term memory as it was; a chat turn of
\* a running engine goes out with the system prompt of the current mode and
\* with the last turns of the memory in its prompt whatever mode they were
\* recorded under; and the turns already in the memory stay as they were
\* recorded, mode tag included, under later turns and switches.
C31_WindowNotFilteredByMode ==
  [][/\ IsModeSwitch => short_term_memory' = short_term_memory
     /\ (op' = "process_input" /\ is_running /\ op_arg' \in ChatInputs) =>
          /\ backend_calls'[1].system_prompt = get_system_prompt(profile, current_mode)
          /\ HumanLines(backend_calls'[1].prompt) = TextsOf(PromptWindow(short_term_memory))
          /\ \E drop \in 0..1 :
               /\ Len(short_term_memory') = Len(short_term_memory) - drop + 1
               /\ \A i \in 1..(Len(short_term_memory) - drop) :
                    short_term_memory'[i] = short_term_memory[i + drop]]_vars

\* C31: a turn taken in companion mode went out with the companion's system
\* prompt and with the turn recorded in assistant mode in its prompt, and
\* that turn is still tagged assistant
C31_Witness ==
  /\ op = "process_input"
  /\ op_arg = "hello"
  /\ current_mode = "companion"
  /\ Len(short_term_memory) = 2
  /\ short_term_memory[1].mode = "assistant"
  /\ short_term_memory[2].mode = "companion"
  /\ backend_calls[1].system_prompt = get_system_prompt(profile, "companion")
  /\ HumanLines(backend_calls[1].prompt) = <<"hello">>

\* C32, as stated: when the load that start() requests fails the engine is
\* not running afterwards, and a process_input that follows returns the
\* not-running message.
C32_FailedLoadNotRunning ==
  [][/\ (op' = "start" /\ ~model_loaded') => ~is_running'
     /\ (op = "start" /\ ~model_loaded /\ op' = "process_input") =>
          result'.msg \in {"ALICE system is not running. Please start the system first.",
                           "System not running."}]_vars

\* the mode, the user text and the response of a turn or of a log row
TurnOf(e) == <<e.mode, e.user_input, e.alice_response>>

\* C34: in an engine that logs its turns and from whose log no row was ever
\* removed (as many rows as INSERTs), after any sequence of chat turns,
\* commands and memory clears the turns of the short-term memory are, in
\* order and in mode, user text and response, the last rows of the
\* conversation log.
C34_MemoryIsLogSuffix ==
  (log_conversations /\ conversations_seq = Len(conversations)) =>
    /\ Len(short_term_memory) <= Len(conversations)
    /\ \A i \in DOMAIN short_term_memory :
         TurnOf(short_term_memory[i]) =
           TurnOf(conversations[Len(conversations) - Len(short_term_memory) + i])

\* C34: after a clear the memory of a full engine with max_short_term 2 was
\* filled again, by the third and the fourth turn, the fourth in another
\* mode, and the log holds all four
C34_Witness ==
  /\ profile = "full"
  /\ log_conversations
  /\ max_short_term = ScenarioMaxShortTerm
  /\ op = "process_input"
  /\ Len(conversations) = 4
  /\ TextsOf(short_term_memory) = <<"3", "4">>
  /\ short_term_memory[1].mode # short_term_memory[2].mode
  /\ TextsOf(conversations) = <<"1", "2", "3", "4">>

\* C33, as stated: the console loop is left after '/quit', 'exit' or 'bye'
\* and after a keyboard interrupt, and when the console function has
\* returned the engine is not running and its backend is unloaded.
C33_ConsoleStopsEngine ==
  [][/\ (/\ pc["console"] = "loop"
         /\ op' = "process_input"
         /\ Lower(op_arg') \in {"/quit", "exit", "bye"}) => pc'["console"] = "finally"
     /\ (pc["console"] = "loop" /\ op' = "stop") => pc'["console"] = "finally"
     /\ pc'["console"] = "returned" => (~is_running' /\ ~model_loaded')]_vars

\* C35, as stated: however the steps of a chat turn interleave with a
\* clear_memory or with another chat turn on the same engine, no turn ends
\* in an error, and when no handler is under way the short-term memory
\* holds at most max_short_term turns.
C35_RemembersUnderInterleaving ==
  /\ \A w \in Workers : pc[w] # "failed"
  /\ (\A w \in Workers : pc[w] \in {"idle", "done"}) =>
       Len(short_term_memory) <= max_short_term

\* C36, as stated: however a chat turn interleaves with a mode switch, the
\* mode stored with the turn, in the short-term memory and in the
\* conversation log, is the mode whose system prompt went to the backend
\* for it.
C36_TagIsPromptMode ==
  \A w \in Workers :
    pc[w] = "done" =>
      /\ \A i \in DOMAIN short_term_memory :
           short_term_memory[i].user_input = locals[w].user_input =>
             get_system_prompt(profile, short_term_memory[i].mode) = locals[w].call.system_prompt
      /\ \A i \in DOMAIN conversations :
           conversations[i].user_input = locals[w].user_input =>
             get_system_prompt(profile, conversations[i].mode) = locals[w].call.system_prompt

====
